---- MODULE Spec2Model ----
(***************************************************************************)
(* Model of document-legacy/src/document_metadata.rs: the DocumentMetadata *)
(* aggregate, the intrusive doubly linked layer tree kept in `structure`,  *)
(* the AxisIter and DecendantsIter iterators and the structural rebuild    *)
(* load_structure.                                                         *)
(*                                                                         *)
(* A LayerNodeIdentifier is modelled by the NonZeroU64 it stores (node id  *)
(* plus one); Option<LayerNodeIdentifier>::None is the niche value 0.      *)
(***************************************************************************)
EXTENDS Integers, Sequences, FiniteSets, TLC

\* Stored identifier values range over 1..MaxId.
MaxId == 4
\* Identifiers handed to the edits by a caller that passes arbitrary ones.
MaxAnyId == 3
\* How many calls returning None an iterator is driven through.
MaxNones == 2

None == 0
\* Marks a computation of the program that never returns (an endless loop):
\* Diverge where a node is expected, DivergeSeq where a sequence is.
Diverge == None - 1
DivergeSeq == <<Diverge>>

Ids == 1..MaxId
AnyIds == 1..MaxAnyId
NodeKeys == 0..(MaxId - 1)

new_unchecked(node_id) == node_id + 1
to_node(layer) == layer - 1
ROOT == new_unchecked(0)

NodeRelationsDefault ==
    [parent |-> None, previous_sibling |-> None, next_sibling |-> None,
     first_child |-> None, last_child |-> None]

VARIABLES
    structure,            \* HashMap<LayerNodeIdentifier, NodeRelations>
    artboards,            \* HashSet<LayerNodeIdentifier>
    folders,              \* HashSet<LayerNodeIdentifier>
    click_targets,        \* HashMap<LayerNodeIdentifier, Vec<ClickTarget>>
    upstream_transforms,  \* HashMap<NodeId, (Footprint, DAffine2)>
    selected_nodes,       \* Vec<NodeId>
    document_to_viewport, \* DAffine2
    iter,                 \* the live DecendantsIter borrowing the metadata, or NoIter
    yielded,              \* what the live iterator returned: [front, back, nones]
    outcome,              \* "ok", or how the program stopped: "abort" (panic), "hang"
    last                  \* the call that produced this state, with the structure before it

vars == <<structure, artboards, folders, click_targets, upstream_transforms,
          selected_nodes, document_to_viewport, iter, yielded, outcome, last>>

----------------------------------------------------------------------------
\* Accessors (get_relations and the five link getters): None for unknown keys.

get_relations(s, n, rel) == IF n \in DOMAIN s THEN s[n][rel] ELSE None

parent(s, n) == get_relations(s, n, "parent")
previous_sibling(s, n) == get_relations(s, n, "previous_sibling")
next_sibling(s, n) == get_relations(s, n, "next_sibling")
first_child(s, n) == get_relations(s, n, "first_child")
last_child(s, n) == get_relations(s, n, "last_child")

\* structure.entry(n).or_default(): the map with n present.
get_structure_mut(s, n) ==
    IF n \in DOMAIN s THEN s ELSE s @@ (n :> NodeRelationsDefault)

\* get_structure_mut(n).rel = v
SetRel(s, n, rel, v) == [get_structure_mut(s, n) EXCEPT ![n][rel] = v]

\* HashMap::remove of every key in ks.
RemoveKeys(s, ks) == [k \in (DOMAIN s) \ ks |-> s[k]]

----------------------------------------------------------------------------
\* AxisIter: follow one relation from a start node until None.

\* A chain of distinct keys has at most MaxId links; a longer walk is a cycle.
Fuel == MaxId + 1

RECURSIVE AxisSeq(_, _, _, _)
\* The items AxisIter yields from layer_node on, or Diverge when it never ends.
AxisSeq(s, rel, layer_node, fuel) ==
    IF layer_node = None THEN <<>>
    ELSE IF fuel = 0 THEN DivergeSeq
    ELSE LET rest == AxisSeq(s, rel, get_relations(s, layer_node, rel), fuel - 1)
         IN  IF rest = DivergeSeq THEN DivergeSeq ELSE <<layer_node>> \o rest

children(s, n) == AxisSeq(s, "next_sibling", first_child(s, n), Fuel)
ancestors(s, n) == AxisSeq(s, "parent", n, Fuel)
last_children(s, n) == AxisSeq(s, "last_child", n, Fuel)

\* Iterator::last of an AxisIter: None when empty, Diverge when endless.
AxisLast(items) ==
    IF items = DivergeSeq THEN Diverge
    ELSE IF items = <<>> THEN None
    ELSE items[Len(items)]

RECURSIVE AxisFindMap(_, _, _, _, _)
\* AxisIter.find_map(|n| n.probe): the first non-None probe link along the chain.
AxisFindMap(s, rel, layer_node, probe, fuel) ==
    IF layer_node = None THEN None
    ELSE IF get_relations(s, layer_node, probe) # None THEN get_relations(s, layer_node, probe)
    ELSE IF fuel = 0 THEN Diverge
    ELSE AxisFindMap(s, rel, get_relations(s, layer_node, rel), probe, fuel - 1)

----------------------------------------------------------------------------
\* DecendantsIter

NoIter == [active |-> FALSE, node |-> None, front |-> None, back |-> None]
NoYield == [front |-> <<>>, back |-> <<>>, nones |-> 0]

\* LayerNodeIdentifier::decendants: the cursors; back = Diverge when the
\* walk down the last children never ends.
decendants(s, n) ==
    [front |-> first_child(s, n),
     back |-> IF last_child(s, n) = None THEN None
              ELSE AxisLast(last_children(s, last_child(s, n)))]

\* The result of a call that never returns.
IterDiverge == [item |-> Diverge, front |-> Diverge, back |-> Diverge]

\* next advancing to the node's own next sibling only, never to an ancestor's.
IterNextOwnSibling(s, it) ==
    IF it.front = it.back
    THEN [item |-> it.front, front |-> None, back |-> None]
    ELSE IF it.front = None
    THEN [item |-> None, front |-> None, back |-> it.back]
    ELSE [item |-> it.front,
          front |-> IF first_child(s, it.front) # None THEN first_child(s, it.front)
                    ELSE next_sibling(s, it.front),
          back |-> it.back]

\* next leaving the back cursor in place when the cursors meet.
IterNextKeepsBack(s, it) ==
    IF it.front = it.back
    THEN [item |-> it.front, front |-> None, back |-> it.back]
    ELSE IF it.front = None
    THEN [item |-> None, front |-> None, back |-> it.back]
    ELSE LET fc == first_child(s, it.front)
             nf == IF fc # None THEN fc
                   ELSE AxisFindMap(s, "parent", it.front, "next_sibling", Fuel)
         IN  IF nf = Diverge THEN IterDiverge
             ELSE [item |-> it.front, front |-> nf, back |-> it.back]

\* DecendantsIter::next: the item returned and the cursors afterwards.
IterNext(s, it) ==
    IF it.front = it.back
    THEN [item |-> it.front, front |-> None, back |-> None]
    ELSE IF it.front = None
    THEN [item |-> None, front |-> None, back |-> it.back]
    ELSE LET fc == first_child(s, it.front)
             nf == IF fc # None THEN fc
                   ELSE AxisFindMap(s, "parent", it.front, "next_sibling", Fuel)
         IN  IF nf = Diverge THEN IterDiverge
             ELSE [item |-> it.front, front |-> nf, back |-> it.back]

\* next_back stepping to the previous sibling itself, not to its last descendant.
IterNextBackShallow(s, it) ==
    IF it.front = it.back
    THEN [item |-> it.back, front |-> None, back |-> None]
    ELSE IF it.back = None
    THEN [item |-> None, front |-> it.front, back |-> None]
    ELSE [item |-> it.back, front |-> it.front,
          back |-> IF previous_sibling(s, it.back) # None
                   THEN previous_sibling(s, it.back)
                   ELSE parent(s, it.back)]

\* DecendantsIter::next_back: the item returned and the cursors afterwards.
IterNextBack(s, it) ==
    IF it.front = it.back
    THEN [item |-> it.back, front |-> None, back |-> None]
    ELSE IF it.back = None
    THEN [item |-> None, front |-> it.front, back |-> None]
    ELSE LET ps == previous_sibling(s, it.back)
             deep == IF ps = None THEN None ELSE AxisLast(last_children(s, ps))
             nb == IF deep = Diverge THEN Diverge
                   ELSE IF deep # None THEN deep
                   ELSE parent(s, it.back)
         IN  IF nb = Diverge THEN IterDiverge
             ELSE [item |-> it.back, front |-> it.front, back |-> nb]

RECURSIVE Drain(_, _, _, _)
\* Consume an iterator with next (back = FALSE) or next_back (back = TRUE)
\* until it returns None: the items in the order returned, or DivergeSeq.
Drain(s, it, back, fuel) ==
    LET r == IF back THEN IterNextBack(s, it) ELSE IterNext(s, it)
    IN  IF r.item = Diverge THEN DivergeSeq
        ELSE IF r.item = None THEN <<>>
        ELSE IF fuel = 0 THEN DivergeSeq
        ELSE LET rest == Drain(s, [front |-> r.front, back |-> r.back], back, fuel - 1)
             IN  IF rest = DivergeSeq THEN DivergeSeq ELSE <<r.item>> \o rest

\* decendants(n).collect()
DecendantsForward(s, n) ==
    IF decendants(s, n).back = Diverge THEN DivergeSeq
    ELSE Drain(s, decendants(s, n), FALSE, Fuel)

\* decendants(n).rev().collect()
DecendantsBackward(s, n) ==
    IF decendants(s, n).back = Diverge THEN DivergeSeq
    ELSE Drain(s, decendants(s, n), TRUE, Fuel)

----------------------------------------------------------------------------
\* Structural edits. Each returns the new structure; the callers check the
\* `new` precondition (the assert! on the first line of each insert).

push_front_child(s, self, new) ==
    LET s1 == get_structure_mut(s, self)
        old_first_child == s1[self].first_child
        s2 == [s1 EXCEPT ![self].first_child = new]
        s3 == IF s2[self].last_child = None
              THEN [s2 EXCEPT ![self].last_child = new] ELSE s2
        s4 == IF old_first_child # None
              THEN SetRel(s3, old_first_child, "previous_sibling", new) ELSE s3
        s5 == SetRel(s4, new, "next_sibling", old_first_child)
    IN  SetRel(s5, new, "parent", self)

\* push_child without parent.first_child.get_or_insert(new).
push_child_keeps_first(s, self, new) ==
    LET s1 == get_structure_mut(s, self)
        old_last_child == s1[self].last_child
        s2 == [s1 EXCEPT ![self].last_child = new]
        s4 == IF old_last_child # None
              THEN SetRel(s2, old_last_child, "next_sibling", new) ELSE s2
        s5 == SetRel(s4, new, "previous_sibling", old_last_child)
    IN  SetRel(s5, new, "parent", self)

push_child(s, self, new) ==
    LET s1 == get_structure_mut(s, self)
        old_last_child == s1[self].last_child
        s2 == [s1 EXCEPT ![self].last_child = new]
        s3 == IF s2[self].first_child = None
              THEN [s2 EXCEPT ![self].first_child = new] ELSE s2
        s4 == IF old_last_child # None
              THEN SetRel(s3, old_last_child, "next_sibling", new) ELSE s3
        s5 == SetRel(s4, new, "previous_sibling", old_last_child)
    IN  SetRel(s5, new, "parent", self)

\* add_before without the update of the parent's first_child.
add_before_keeps_first(s, self, new) ==
    LET s1 == SetRel(s, new, "next_sibling", self)
        s2 == SetRel(s1, new, "parent", parent(s1, self))
        s3 == get_structure_mut(s2, self)
        old_previous_sibling == s3[self].previous_sibling
        s4 == [s3 EXCEPT ![self].previous_sibling = new]
    IN  IF old_previous_sibling # None
        THEN SetRel(SetRel(s4, old_previous_sibling, "next_sibling", new),
                    new, "previous_sibling", old_previous_sibling)
        ELSE s4

add_before(s, self, new) ==
    LET s1 == SetRel(s, new, "next_sibling", self)
        s2 == SetRel(s1, new, "parent", parent(s1, self))
        s3 == get_structure_mut(s2, self)
        old_previous_sibling == s3[self].previous_sibling
        s4 == [s3 EXCEPT ![self].previous_sibling = new]
    IN  IF old_previous_sibling # None
        THEN SetRel(SetRel(s4, old_previous_sibling, "next_sibling", new),
                    new, "previous_sibling", old_previous_sibling)
        ELSE LET p == parent(s4, self)
             IN  IF p # None /\ get_structure_mut(s4, p)[p].first_child = self
                 THEN SetRel(s4, p, "first_child", new)
                 ELSE IF p # None THEN get_structure_mut(s4, p) ELSE s4

add_after(s, self, new) ==
    LET s1 == SetRel(s, new, "previous_sibling", self)
        s2 == SetRel(s1, new, "parent", parent(s1, self))
        s3 == get_structure_mut(s2, self)
        old_next_sibling == s3[self].next_sibling
        s4 == [s3 EXCEPT ![self].next_sibling = new]
    IN  IF old_next_sibling # None
        THEN SetRel(SetRel(s4, old_next_sibling, "previous_sibling", new),
                    new, "next_sibling", old_next_sibling)
        ELSE LET p == parent(s4, self)
             IN  IF p # None /\ get_structure_mut(s4, p)[p].last_child = self
                 THEN SetRel(s4, p, "last_child", new)
                 ELSE IF p # None THEN get_structure_mut(s4, p) ELSE s4

\* The relinking of delete without the update of the parent's last_child.
DeleteUnlinkKeepsLast(s, self) ==
    LET prev == previous_sibling(s, self)
        next == next_sibling(s, self)
        s1 == IF prev # None THEN SetRel(s, prev, "next_sibling", next) ELSE s
        s2 == IF next # None THEN SetRel(s1, next, "previous_sibling", prev) ELSE s1
        p == parent(s2, self)
        s3 == IF p # None THEN get_structure_mut(s2, p) ELSE s2
    IN  IF p # None /\ s3[p].first_child = self
        THEN [s3 EXCEPT ![p].first_child = next] ELSE s3

\* The relinking part of delete (lines 534-550).
DeleteUnlink(s, self) ==
    LET prev == previous_sibling(s, self)
        next == next_sibling(s, self)
        s1 == IF prev # None THEN SetRel(s, prev, "next_sibling", next) ELSE s
        s2 == IF next # None THEN SetRel(s1, next, "previous_sibling", prev) ELSE s1
        p == parent(s2, self)
        s3 == IF p # None THEN get_structure_mut(s2, p) ELSE s2
        s4 == IF p # None /\ s3[p].first_child = self
              THEN [s3 EXCEPT ![p].first_child = next] ELSE s3
    IN  IF p # None /\ s4[p].last_child = self
        THEN [s4 EXCEPT ![p].last_child = prev] ELSE s4

\* delete never returns when collecting the descendants never ends.
DeleteDiverges(s, self) ==
    DecendantsForward(DeleteUnlink(s, self), self) = DivergeSeq

\* delete: the structure afterwards (when it returns).
delete(s, self) ==
    LET s1 == DeleteUnlink(s, self)
        d == DecendantsForward(s1, self)
    IN  RemoveKeys(s1, {self} \cup {d[i] : i \in 1..Len(d)})

----------------------------------------------------------------------------
DefaultStructure == ROOT :> NodeRelationsDefault

----------------------------------------------------------------------------
\* The node graph snapshot read by load_structure. A graph is
\* [nodes: NodeId -> [kind, inputs], output: NodeId]; an input is the id of
\* the node it is wired to, or NoInput when it is not a node input;
\* inputs[1] is the primary input (inputs[0] in the source).

NoInput == -2

Node(kind, inputs) == [kind |-> kind, inputs |-> inputs]
is_layer(node) == node.kind = "Layer"
is_artboard_node(node) == node.kind = "Artboard"

\* A walk of the primary inputs visits at most this many distinct nodes.
MaxGraphNodes == 6
FlowFuel == 2 * MaxGraphNodes + 2

RECURSIVE FlowPrefix(_, _, _)
\* NodeNetwork::upstream_flow_back_from_nodes(vec![start], true): the start
\* node when the graph has it, then the node its primary input is wired to,
\* and so on; the first n items.
FlowPrefix(g, start, n) ==
    IF n = 0 \/ start \notin DOMAIN g.nodes THEN <<>>
    ELSE <<start>> \o FlowPrefix(g, g.nodes[start].inputs[1], n - 1)

upstream_flow_back_from_nodes(g, start) == FlowPrefix(g, start, FlowFuel)

\* find(|(node, _)| node.is_layer()) over a flow: the first layer, NoInput
\* when the flow ends without one, Diverge when it circles without one.
FlowFindLayer(g, flow) ==
    LET hits == {i \in 1..Len(flow) : is_layer(g.nodes[flow[i]])}
    IN  IF hits # {} THEN flow[CHOOSE i \in hits : \A j \in hits : i <= j]
        ELSE IF Len(flow) = FlowFuel THEN Diverge
        ELSE NoInput

\* The closure of is_folder's any(): an artboard or a layer.
IsLayerOrArtboard(node) == is_artboard_node(node) \/ is_layer(node)

\* skip(n).any(..) over a flow, for artboards alone or for artboards and
\* layers: "yes", "no", or "diverge" when the flow circles without a match.
FlowAny(g, flow, skip, layers_too) ==
    IF \E i \in (skip + 1)..Len(flow) :
           IF layers_too THEN IsLayerOrArtboard(g.nodes[flow[i]])
           ELSE is_artboard_node(g.nodes[flow[i]])
    THEN "yes"
    ELSE IF Len(flow) = FlowFuel THEN "diverge"
    ELSE "no"

first_child_layer(g, node) ==
    IF node.inputs[1] = NoInput THEN NoInput
    ELSE FlowFindLayer(g, upstream_flow_back_from_nodes(g, node.inputs[1]))

sibling_below(g, node) ==
    IF node.inputs[2] # NoInput /\ node.inputs[2] \in DOMAIN g.nodes
       /\ is_layer(g.nodes[node.inputs[2]])
    THEN node.inputs[2]
    ELSE NoInput

is_artboard(layer, g) ==
    FlowAny(g, upstream_flow_back_from_nodes(g, to_node(layer)), 0, FALSE)

is_folder(layer, g) ==
    IF to_node(layer) \in DOMAIN g.nodes /\ Len(g.nodes[to_node(layer)].inputs) >= 1
       /\ g.nodes[to_node(layer)].inputs[1] = NoInput
    THEN "yes"
    ELSE FlowAny(g, upstream_flow_back_from_nodes(g, to_node(layer)), 1, TRUE)

\* The metadata fields load_structure writes, with how the call went:
\* "walked" (the loops ran to the end), "returned" (one of the two early
\* returns) or "hang".
Walk(s, a, f, how) == [structure |-> s, artboards |-> a, folders |-> f, how |-> how]

\* A rebuild that clears the folders and artboards but keeps the old tree.
LoadResetKeepsStructure(m) == Walk(m.structure, {}, {}, "walked")

\* Lines 179-181: the tree, the folders and the artboards start afresh.
LoadReset(m) == Walk(DefaultStructure, {}, {}, "walked")

\* Lines 195-209 for one layer that is not yet a key: register it under
\* parent, queue its first child layer, classify it.
RegisterLayer(m, g, current, parent_layer, stack) ==
    LET ident == new_unchecked(current)
        s1 == push_child(m.structure, parent_layer, ident)
        child == first_child_layer(g, g.nodes[current])
        stack1 == IF child \in {NoInput, Diverge} THEN stack
                  ELSE Append(stack, <<child, ident>>)
        art == is_artboard(ident, g)
        a1 == IF art = "yes" THEN m.artboards \cup {ident} ELSE m.artboards
        fol == IF art = "diverge" THEN "diverge" ELSE is_folder(ident, g)
        f1 == IF fol = "yes" THEN m.folders \cup {ident} ELSE m.folders
    IN  IF child = Diverge THEN [m |-> Walk(s1, m.artboards, m.folders, "hang"), stack |-> stack]
        ELSE IF art = "diverge" THEN [m |-> Walk(s1, m.artboards, m.folders, "hang"), stack |-> stack1]
        ELSE IF fol = "diverge" THEN [m |-> Walk(s1, a1, m.folders, "hang"), stack |-> stack1]
        ELSE [m |-> Walk(s1, a1, f1, "walked"), stack |-> stack1]

RECURSIVE SiblingLoop(_, _, _, _, _, _)
\* The inner while loop (lines 194-212): current and the layers below it.
SiblingLoop(m, g, current, parent_layer, stack, fuel) ==
    IF current = NoInput THEN [m |-> m, stack |-> stack]
    ELSE IF fuel = 0 THEN [m |-> [m EXCEPT !.how = "hang"], stack |-> stack]
    ELSE LET r == IF new_unchecked(current) \notin DOMAIN m.structure
                  THEN RegisterLayer(m, g, current, parent_layer, stack)
                  ELSE [m |-> m, stack |-> stack]
         IN  IF r.m.how = "hang" THEN r
             ELSE SiblingLoop(r.m, g, sibling_below(g, g.nodes[current]),
                              parent_layer, r.stack, fuel - 1)

RECURSIVE StackLoop(_, _, _, _)
\* The outer while loop (lines 192-213): pop the work stack until it is empty.
StackLoop(m, g, stack, fuel) ==
    IF stack = <<>> THEN m
    ELSE IF fuel = 0 THEN [m EXCEPT !.how = "hang"]
    ELSE LET top == stack[Len(stack)]
             r == SiblingLoop(m, g, top[1], top[2], SubSeq(stack, 1, Len(stack) - 1),
                              MaxGraphNodes + 1)
         IN  IF r.m.how = "hang" THEN r.m
             ELSE StackLoop(r.m, g, r.stack, fuel - 1)

\* load_structure up to the pruning of the caches (lines 179-213).
load_structure(m, g) ==
    LET m0 == LoadReset(m)
        first == IF g.output \in DOMAIN g.nodes
                 THEN first_child_layer(g, g.nodes[g.output]) ELSE NoInput
    IN  IF first = Diverge THEN [m0 EXCEPT !.how = "hang"]
        ELSE IF first = NoInput THEN [m0 EXCEPT !.how = "returned"]
        ELSE StackLoop(m0, g, <<<<first, ROOT>>>>, MaxGraphNodes + 1)

\* The graphs load_structure is called with. Node 10 is the output node,
\* nodes 11 and 12 are other non-layer nodes, 0..3 are layer nodes.
NI == NoInput
Lyr(content, below) == Node("Layer", <<content, below>>)
Oth(primary) == Node("Other", <<primary>>)
Art(primary) == Node("Artboard", <<primary>>)
Graph(nodes) == [nodes |-> nodes, output |-> 10]

Graphs ==
    { Graph(<<>>),
      Graph(10 :> Oth(NI)),
      Graph(10 :> Oth(11) @@ 11 :> Oth(NI)),
      Graph(10 :> Oth(5)),
      Graph(10 :> Oth(1) @@ 1 :> Lyr(NI, NI)),
      Graph(10 :> Oth(11) @@ 11 :> Oth(1) @@ 1 :> Lyr(12, NI) @@ 12 :> Oth(NI)),
      Graph(10 :> Oth(1) @@ 1 :> Lyr(NI, 2) @@ 2 :> Lyr(NI, 3) @@ 3 :> Lyr(NI, NI)),
      Graph(10 :> Oth(3) @@ 3 :> Lyr(NI, 2) @@ 2 :> Lyr(NI, 1) @@ 1 :> Lyr(NI, NI)),
      Graph(10 :> Oth(1) @@ 1 :> Lyr(2, NI) @@ 2 :> Lyr(3, NI) @@ 3 :> Lyr(NI, NI)),
      Graph(10 :> Oth(1) @@ 1 :> Lyr(2, 3) @@ 2 :> Lyr(NI, NI) @@ 3 :> Lyr(NI, NI)),
      Graph(10 :> Oth(1) @@ 1 :> Lyr(2, NI) @@ 2 :> Lyr(NI, 3) @@ 3 :> Lyr(NI, NI)),
      Graph(10 :> Oth(1) @@ 1 :> Lyr(11, 2) @@ 11 :> Art(NI) @@ 2 :> Lyr(12, NI) @@ 12 :> Oth(NI)),
      Graph(10 :> Oth(1) @@ 1 :> Lyr(11, NI) @@ 11 :> Oth(2) @@ 2 :> Lyr(12, NI) @@ 12 :> Art(NI)),
      Graph(10 :> Oth(1) @@ 1 :> Lyr(2, 2) @@ 2 :> Lyr(NI, NI)),
      Graph(10 :> Oth(1) @@ 1 :> Lyr(3, 2) @@ 2 :> Lyr(3, NI) @@ 3 :> Lyr(NI, NI)),
      Graph(10 :> Oth(1) @@ 1 :> Lyr(NI, 11) @@ 11 :> Oth(NI)),
      Graph(10 :> Oth(1) @@ 1 :> Lyr(NI, 5)),
      Graph(10 :> Oth(0) @@ 0 :> Lyr(2, 1) @@ 1 :> Lyr(NI, NI) @@ 2 :> Lyr(NI, NI)),
      Graph(10 :> Oth(1) @@ 1 :> Lyr(1, NI)),
      Graph(10 :> Oth(1) @@ 1 :> Lyr(NI, 2) @@ 2 :> Lyr(NI, 1)),
      Graph(10 :> Oth(11) @@ 11 :> Oth(12) @@ 12 :> Oth(11)) }

NoGraph == [nodes |-> <<>>, output |-> NoInput]

\* HashMap::retain by key.
RetainKeys(map, keep) == [k \in (DOMAIN map) \cap keep |-> map[k]]

\* An assert! that lets the root through.
AssertFailsExceptRoot(s, new) == new \in (DOMAIN s) \ {ROOT}

\* glam's DAffine2 as <<a, b, c, d, e, f>>: matrix columns (a, b) and (c, d),
\* translation (e, f).
Affine(a, b, c, d, e, f) == <<a, b, c, d, e, f>>
IDENTITY == Affine(1, 0, 0, 1, 0, 0)

\* DAffine2 * DAffine2: the right operand is applied first.
AffineMul(l, r) ==
    Affine(l[1] * r[1] + l[3] * r[2], l[2] * r[1] + l[4] * r[2],
           l[1] * r[3] + l[3] * r[4], l[2] * r[3] + l[4] * r[4],
           l[1] * r[5] + l[3] * r[6] + l[5], l[2] * r[5] + l[4] * r[6] + l[6])

ScaleX2 == Affine(2, 0, 0, 1, 0, 0)
Rot90 == Affine(0, 1, 0 - 1, 0, 0, 0)
Shift == Affine(1, 0, 0, 1, 3, 1)

\* An f64 holding an integer, written big * 2^53 + low with a small low.
\* Up to 2^53 every integer is an f64; from 2^53 to 2^54 only the even ones.
F64(big, low) == [big |-> big, low |-> low]
Num(low) == F64(0, low)
Big(low) == F64(1, low)
DVec2(x, y) == [x |-> x, y |-> y]
Pt(x, y) == DVec2(Num(x), Num(y))

\* The values the setters are called with. Node keys 1..3 are layers of the
\* graphs above, 5 and 7 are keys no graph has; layer 5 is never in the tree.
Selections == { <<>>, <<1>>, <<5, 1>>, <<2, 2, 7>> }

TransformMaps ==
    { <<>>,
      1 :> <<ScaleX2, Rot90>>,
      0 :> <<Shift, ScaleX2>> @@ 2 :> <<Rot90, Shift>>,
      1 :> <<Rot90, ScaleX2>> @@ 3 :> <<Shift, Rot90>> @@ 7 :> <<ScaleX2, Shift>> }

\* A click target is modelled by the anchor points of its subpath.
ClickTargetMaps ==
    { <<>>,
      2 :> << <<Pt(2, 2)>> >>,
      2 :> << <<Pt(0, 0), Pt(3, 0)>> >> @@ 3 :> << <<Pt(1, 1), Pt(1, 4)>>, <<Pt(2, 0)>> >>,
      2 :> <<>> @@ 3 :> << <<>> >> @@ 5 :> << <<Pt(1, 1)>> >>,
      3 :> << <<DVec2(Big(0), Num(2)), DVec2(Big(0), Num(5))>> >>
        @@ 4 :> << <<DVec2(Big(2), Big(2))>> >> }

\* The assert! that opens each of the four inserts fails.
AssertFails(s, new) == new \in DOMAIN s

InsertOps == {"push_front_child", "push_child", "add_before", "add_after"}

\* The record of a call: its name, receiver and arguments, the structure
\* before it and, for a query, what it returned.
Call(op, self, new) ==
    [op |-> op, self |-> self, new |-> new, pre |-> structure, graph |-> NoGraph,
     arg |-> <<>>, result |-> None]

Init ==
    /\ structure = DefaultStructure
    /\ artboards = {}
    /\ folders = {}
    /\ click_targets = <<>>
    /\ upstream_transforms = <<>>
    /\ selected_nodes = <<>>
    /\ document_to_viewport = IDENTITY
    /\ iter = NoIter
    /\ yielded = NoYield
    /\ outcome = "ok"
    /\ last = [op |-> "default", self |-> None, new |-> None,
               pre |-> DefaultStructure, graph |-> NoGraph,
               arg |-> <<>>, result |-> None]

\* A &mut call needs the program running and no live iterator borrowing it.
CanMutate == outcome = "ok" /\ ~iter.active

Insert(op, self, new, result) ==
    /\ CanMutate
    /\ last' = Call(op, self, new)
    /\ IF AssertFails(structure, new)
       THEN outcome' = "abort" /\ UNCHANGED structure
       ELSE outcome' = "ok" /\ structure' = result
    /\ UNCHANGED <<artboards, folders, click_targets, upstream_transforms,
                   selected_nodes, document_to_viewport, iter, yielded>>

PushFrontChild(selfs, news) ==
    \E self \in selfs, new \in news :
        Insert("push_front_child", self, new, push_front_child(structure, self, new))

PushChild(selfs, news) ==
    \E self \in selfs, new \in news :
        Insert("push_child", self, new, push_child(structure, self, new))

AddBefore(selfs, news) ==
    \E self \in selfs, new \in news :
        Insert("add_before", self, new, add_before(structure, self, new))

AddAfter(selfs, news) ==
    \E self \in selfs, new \in news :
        Insert("add_after", self, new, add_after(structure, self, new))

Delete(selfs) ==
    \E self \in selfs :
        /\ CanMutate
        /\ last' = Call("delete", self, None)
        /\ IF DeleteDiverges(structure, self)
           THEN outcome' = "hang" /\ structure' = DeleteUnlink(structure, self)
           ELSE outcome' = "ok" /\ structure' = delete(structure, self)
        /\ UNCHANGED <<artboards, folders, click_targets, upstream_transforms,
                       selected_nodes, document_to_viewport, iter, yielded>>

\* let it = n.decendants(&metadata)
Decendants(nodes) ==
    \E n \in nodes :
        /\ CanMutate
        /\ last' = Call("decendants", n, None)
        /\ yielded' = NoYield
        /\ IF decendants(structure, n).back = Diverge
           THEN outcome' = "hang" /\ UNCHANGED iter
           ELSE /\ outcome' = "ok"
                /\ iter' = [active |-> TRUE, node |-> n,
                            front |-> decendants(structure, n).front,
                            back |-> decendants(structure, n).back]
        /\ UNCHANGED <<structure, artboards, folders, click_targets,
                       upstream_transforms, selected_nodes, document_to_viewport>>

\* One it.next() or it.next_back() with result r.
IterCall(op, r) ==
    /\ outcome = "ok"
    /\ iter.active
    /\ r.item = None => yielded.nones < MaxNones
    /\ last' = Call(op, iter.node, r.item)
    /\ IF r.item = Diverge
       THEN outcome' = "hang" /\ UNCHANGED <<iter, yielded>>
       ELSE /\ outcome' = "ok"
            /\ iter' = [iter EXCEPT !.front = r.front, !.back = r.back]
            /\ yielded' =
                 IF r.item = None THEN [yielded EXCEPT !.nones = @ + 1]
                 ELSE IF op = "next" THEN [yielded EXCEPT !.front = Append(@, r.item)]
                 ELSE [yielded EXCEPT !.back = Append(@, r.item)]
    /\ UNCHANGED <<structure, artboards, folders, click_targets,
                   upstream_transforms, selected_nodes, document_to_viewport>>

IteratorNext == IterCall("next", IterNext(structure, iter))

IteratorNextBack == IterCall("next_back", IterNextBack(structure, iter))

\* The iterator goes out of scope: the borrow ends.
IteratorDrop ==
    /\ outcome = "ok"
    /\ iter.active
    /\ iter' = NoIter
    /\ yielded' = NoYield
    /\ last' = Call("drop", None, None)
    /\ UNCHANGED <<structure, artboards, folders, click_targets,
                   upstream_transforms, selected_nodes, document_to_viewport,
                   outcome>>

\* metadata.load_structure(&graph)
LoadStructure ==
    \E g \in Graphs :
        LET m == load_structure(Walk(structure, artboards, folders, "walked"), g)
        IN  /\ CanMutate
            /\ last' = [Call("load_structure", None, None) EXCEPT !.graph = g]
            /\ structure' = m.structure
            /\ artboards' = m.artboards
            /\ folders' = m.folders
            /\ outcome' = IF m.how = "hang" THEN "hang" ELSE "ok"
            /\ IF m.how = "walked"
               THEN /\ selected_nodes' =
                         SelectSeq(selected_nodes, LAMBDA node : node \in DOMAIN g.nodes)
                    /\ upstream_transforms' = RetainKeys(upstream_transforms, DOMAIN g.nodes)
                    /\ click_targets' = RetainKeys(click_targets, DOMAIN m.structure)
               ELSE UNCHANGED <<click_targets, upstream_transforms, selected_nodes>>
            /\ UNCHANGED <<document_to_viewport, iter, yielded>>

\* How many layers a caller hands to a query that takes a collection.
MaxPicked == 3

\* layer.ancestors(self).collect() followed by reverse(): root first.
layer_path(s, layer) ==
    LET up == ancestors(s, layer)
    IN  [i \in 1..Len(up) |-> up[Len(up) + 1 - i]]

\* Ord of Vec<LayerNodeIdentifier>: lexicographic, a proper prefix first.
LexLess(a, b) ==
    \/ \E k \in 1..Len(a) :
           /\ k <= Len(b)
           /\ a[k] < b[k]
           /\ \A j \in 1..(k - 1) : a[j] = b[j]
    \/ /\ Len(a) < Len(b)
       /\ \A j \in 1..Len(a) : a[j] = b[j]

\* The paths left in the order the caller gave them.
sort_keeps_order(paths) == paths

RECURSIVE sort(_)
\* Vec::sort (stable).
sort(paths) ==
    IF paths = <<>> THEN <<>>
    ELSE LET rest == sort(Tail(paths))
             n == Cardinality({i \in 1..Len(rest) : LexLess(rest[i], Head(paths))})
         IN  SubSeq(rest, 1, n) \o <<Head(paths)>> \o SubSeq(rest, n + 1, Len(rest))

\* <[T]>::starts_with
starts_with(a, b) == Len(b) <= Len(a) /\ SubSeq(a, 1, Len(b)) = b

RECURSIVE DedupFrom(_, _)
\* Vec::dedup_by(|a, b| a.starts_with(b)): an element is dropped when it
\* starts with the last element kept.
DedupFrom(kept, rest) ==
    IF rest = <<>> THEN kept
    ELSE IF starts_with(Head(rest), kept[Len(kept)]) THEN DedupFrom(kept, Tail(rest))
    ELSE DedupFrom(Append(kept, Head(rest)), Tail(rest))

dedup_by_starts_with(paths) ==
    IF paths = <<>> THEN <<>> ELSE DedupFrom(<<Head(paths)>>, Tail(paths))

shallowest_unique_layers(s, layers) ==
    dedup_by_starts_with(sort([i \in 1..Len(layers) |-> layer_path(s, layers[i])]))

\* The collections of up to MaxPicked layers taken from pool, repeats allowed.
Picked(pool) == UNION {[1..n -> pool] : n \in 0..MaxPicked}

\* A call of a &self method: nothing changes but the record of the call.
Query(op, self, arg, result, how) ==
    /\ CanMutate
    /\ last' = [Call(op, self, None) EXCEPT !.arg = arg, !.result = result]
    /\ outcome' = how
    /\ UNCHANGED <<structure, artboards, folders, click_targets, upstream_transforms,
                   selected_nodes, document_to_viewport, iter, yielded>>

\* metadata.shallowest_unique_layers(layers.into_iter())
ShallowestUniqueLayers ==
    \E layers \in Picked(DOMAIN structure) :
        Query("shallowest_unique_layers", None, layers,
              shallowest_unique_layers(structure, layers), "ok")

\* The closure of deepest_common_ancestor's map: the root-first path, with
\* the layer itself popped when include_self || !folders.contains(&layer).
candidate_path(s, f, layer, include_self) ==
    LET path == layer_path(s, layer)
    IN  IF (include_self \/ layer \notin f) /\ path # <<>>
        THEN SubSeq(path, 1, Len(path) - 1)
        ELSE path

\* A fold step that keeps the first path whole.
truncate_keeps_all(a, b) == a

\* The closure of reduce: a truncated to the position of the first pair that
\* differs, or to the shorter length when no pair differs.
truncate_to_common(a, b) ==
    LET both == IF Len(a) < Len(b) THEN Len(a) ELSE Len(b)
        differ == {k \in 1..both : a[k] # b[k]}
        position == IF differ = {} THEN both
                    ELSE (CHOOSE k \in differ : \A j \in differ : k <= j) - 1
    IN  SubSeq(a, 1, position)

RECURSIVE Reduce(_, _)
\* Iterator::reduce with truncate_to_common, from accumulator acc.
Reduce(acc, rest) ==
    IF rest = <<>> THEN acc
    ELSE Reduce(truncate_to_common(acc, Head(rest)), Tail(rest))

deepest_common_ancestor(s, f, layers, include_self) ==
    LET paths == [i \in 1..Len(layers) |-> candidate_path(s, f, layers[i], include_self)]
        common == IF paths = <<>> THEN <<>> ELSE Reduce(Head(paths), Tail(paths))
    IN  IF common = <<>> THEN None ELSE common[Len(common)]

\* metadata.deepest_common_ancestor(layers.into_iter(), include_self)
DeepestCommonAncestor ==
    \E layers \in Picked(DOMAIN structure), include_self \in BOOLEAN :
        Query("deepest_common_ancestor", None, <<layers, include_self>>,
              deepest_common_ancestor(structure, folders, layers, include_self), "ok")

\* self.ancestors(..).filter(|&layer| layer != ROOT).last(): None when the
\* chain holds nothing but the root.
last_before_root(s, self) ==
    LET kept == SelectSeq(ancestors(s, self), LAMBDA layer : layer # ROOT)
    IN  IF kept = <<>> THEN None ELSE kept[Len(kept)]

\* self.child_of_root(&metadata): expect() panics on None.
ChildOfRoot ==
    \E self \in Ids :
        Query("child_of_root", self, <<>>, last_before_root(structure, self),
              IF last_before_root(structure, self) = None THEN "abort" ELSE "ok")

\* A lookup that asks the layer itself and none of its ancestors.
transform_of_layer_only(s, ut, d2v, layer) ==
    IF to_node(layer) \in DOMAIN ut
    THEN AffineMul(ut[to_node(layer)][1], ut[to_node(layer)][2])
    ELSE d2v

\* layer.ancestors(self).filter_map(|layer| upstream_transforms.get(..))
\*     .map(|(footprint, transform)| footprint.transform * transform)
\*     .next().unwrap_or(self.document_to_viewport)
transform_to_viewport(s, ut, d2v, layer) ==
    LET found == SelectSeq(ancestors(s, layer), LAMBDA a : to_node(a) \in DOMAIN ut)
    IN  IF found = <<>> THEN d2v
        ELSE AffineMul(ut[to_node(found[1])][1], ut[to_node(found[1])][2])

\* upstream_transforms.get(&layer.to_node()).map(|(footprint, _)| footprint.transform)
\*     .unwrap_or_else(|| self.transform_to_viewport(layer))
downstream_transform_to_viewport(s, ut, d2v, layer) ==
    IF to_node(layer) \in DOMAIN ut THEN ut[to_node(layer)][1]
    ELSE transform_to_viewport(s, ut, d2v, layer)

\* metadata.transform_to_viewport(layer)
TransformToViewport ==
    \E layer \in Ids :
        Query("transform_to_viewport", layer, <<>>,
              transform_to_viewport(structure, upstream_transforms,
                                    document_to_viewport, layer), "ok")

\* metadata.downstream_transform_to_viewport(layer)
DownstreamTransformToViewport ==
    \E layer \in Ids :
        Query("downstream_transform_to_viewport", layer, <<>>,
              downstream_transform_to_viewport(structure, upstream_transforms,
                                               document_to_viewport, layer), "ok")

\* metadata.document_to_viewport = transform (a pub field)
SetDocumentToViewport ==
    \E transform \in {IDENTITY, Shift, Rot90} :
        /\ CanMutate
        /\ last' = [Call("document_to_viewport", None, None) EXCEPT !.arg = transform]
        /\ document_to_viewport' = transform
        /\ UNCHANGED <<structure, artboards, folders, click_targets, upstream_transforms,
                       selected_nodes, iter, yielded, outcome>>

\* quad.rs. Coordinates are integers (f64 holds them exactly); the one
\* division of contains() is compared by cross-multiplication, so a box and a
\* point stand for every uniform scaling of themselves, such as the unit box
\* in hundredths.
Vec(x, y) == <<x, y>>

\* Quad::from_box: bbox[0], bbox[0] + size * X, bbox[1], bbox[0] + size * Y.
from_box(bbox) ==
    LET size == Vec(bbox[2][1] - bbox[1][1], bbox[2][2] - bbox[1][2])
    IN  << bbox[1],
           Vec(bbox[1][1] + size[1] * 1, bbox[1][2] + size[2] * 0),
           bbox[2],
           Vec(bbox[1][1] + size[1] * 0, bbox[1][2] + size[2] * 1) >>

\* DAffine2::transform_point2
transform_point2(affine, point) ==
    Vec(affine[1] * point[1] + affine[3] * point[2] + affine[5],
        affine[2] * point[1] + affine[4] * point[2] + affine[6])

\* impl Mul<Quad> for DAffine2
AffineMulQuad(affine, quad) == [k \in 1..4 |-> transform_point2(affine, quad[k])]

\* DAffine2::from_scale(DVec2::new(-1., 1.))
MirrorY == Affine(0 - 1, 0, 0, 1, 0, 0)

\* The condition of the if in Quad::contains for the edge (i, j):
\*   (q[i].y > p.y) != (q[j].y > p.y)
\*   && p.x < (q[j].x - q[i].x * (p.y - q[i].y) / (q[j].y - q[i].y) + q[i].x)
\* where the product binds q[i].x alone; with n = q[i].x * (p.y - q[i].y) and
\* d = q[j].y - q[i].y the comparison is (p.x - q[j].x - q[i].x) < -n / d.
EdgeToggles(quad, i, j, point) ==
    LET n == quad[i][1] * (point[2] - quad[i][2])
        d == quad[j][2] - quad[i][2]
        l == point[1] - quad[j][1] - quad[i][1]
    IN  /\ (quad[i][2] > point[2]) # (quad[j][2] > point[2])
        /\ IF d > 0 THEN l * d < 0 - n ELSE l * d > 0 - n

\* Quad::contains: inside is flipped once for every edge whose condition holds,
\* over the pairs (0..4).zip([3, 0, 1, 2]).
contains(quad, point) ==
    Cardinality({i \in 1..4 :
        EdgeToggles(quad, i, IF i = 1 THEN 4 ELSE i - 1, point)}) % 2 = 1

\* Corners of the boxes and coordinates of the points asked about: the unit
\* box and its neighbours in hundredths, with (50, 50), (100, 110) and
\* (50, -1) among the points.
BoxCoords == {0 - 100, 0, 100}
PointCoords == {0 - 150, 0 - 50, 0 - 1, 50, 99, 110, 120, 150}

\* Quad::from_box([c0, c1]).contains(p), or the same on the mirrored quad.
QuadContains ==
    \E x0, y0, x1, y1 \in BoxCoords, mirrored \in BOOLEAN, px, py \in PointCoords :
        /\ x0 # x1
        /\ y0 # y1
        /\ LET quad == IF mirrored
                       THEN AffineMulQuad(MirrorY, from_box(<<Vec(x0, y0), Vec(x1, y1)>>))
                       ELSE from_box(<<Vec(x0, y0), Vec(x1, y1)>>)
           IN  Query("contains", None, <<quad, Vec(px, py)>>,
                     contains(quad, Vec(px, py)), "ok")

\* Order of f64 values.
F64Less(a, b) == a.big < b.big \/ (a.big = b.big /\ a.low < b.low)
F64Min(a, b) == IF F64Less(b, a) THEN b ELSE a
F64Max(a, b) == IF F64Less(a, b) THEN b ELSE a

\* a - b. The difference of two integers rounds to zero only when it is zero.
F64Sub(a, b) == F64(a.big - b.big, a.low - b.low)

\* size < 1e-10, for a size that is an integer.
BelowEpsilon(size) == size.big < 0 \/ (size.big = 0 /\ size.low <= 0)

\* An addition that is always exact.
F64AddOneExact(a) == F64(a.big, a.low + 1)

\* a + 1. rounded to the 53-bit significand of f64: exact below 2^53; from
\* 2^53 on the sum is odd, halfway between two f64 values, and goes to the
\* one with the even significand.
F64AddOne(a) ==
    IF a.big = 0 \/ a.low < 0 THEN F64(a.big, a.low + 1)
    ELSE IF a.low % 4 = 0 THEN a
    ELSE F64(a.big, a.low + 2)

\* DVec2::min and DVec2::max, per component.
DVec2Min(a, b) == DVec2(F64Min(a.x, b.x), F64Min(a.y, b.y))
DVec2Max(a, b) == DVec2(F64Max(a.x, b.x), F64Max(a.y, b.y))

\* Quad::combine_bounds
combine_bounds(a, b) == <<DVec2Min(a[1], b[1]), DVec2Max(a[2], b[2])>>

RECURSIVE ReduceBounds(_, _)
\* Iterator::reduce(Quad::combine_bounds) from accumulator acc.
ReduceBounds(acc, rest) ==
    IF rest = <<>> THEN acc ELSE ReduceBounds(combine_bounds(acc, Head(rest)), Tail(rest))

\* Option<[DVec2; 2]>::None
NoBox == <<>>

\* Subpath::bounding_box_with_transform(DAffine2::IDENTITY) of a subpath of
\* straight segments: the box of its anchors, None for an empty subpath.
subpath_bounding_box(subpath) ==
    IF subpath = <<>> THEN NoBox
    ELSE ReduceBounds(<<subpath[1], subpath[1]>>,
                      [i \in 1..(Len(subpath) - 1) |-> <<subpath[i + 1], subpath[i + 1]>>])

\* bounding_box_with_transform(layer, DAffine2::IDENTITY): None when layer has
\* no entry in click_targets or no click target of it has a box.
bounding_box_with_transform(ct, layer) ==
    IF layer \notin DOMAIN ct THEN NoBox
    ELSE LET boxes == SelectSeq([i \in 1..Len(ct[layer]) |-> subpath_bounding_box(ct[layer][i])],
                                LAMBDA box : box # NoBox)
         IN  IF boxes = <<>> THEN NoBox ELSE ReduceBounds(Head(boxes), Tail(boxes))

\* <[DVec2; 2]>::default()
ZeroBox == <<DVec2(Num(0), Num(0)), DVec2(Num(0), Num(0))>>

nonzero_bounding_box(ct, layer) ==
    LET found == bounding_box_with_transform(ct, layer)
        bounds == IF found = NoBox THEN ZeroBox ELSE found
        bounds_min == bounds[1]
        bounds_size == DVec2(F64Sub(bounds[2].x, bounds_min.x), F64Sub(bounds[2].y, bounds_min.y))
        max_x == IF BelowEpsilon(bounds_size.x) THEN F64AddOne(bounds_min.x) ELSE bounds[2].x
        max_y == IF BelowEpsilon(bounds_size.y) THEN F64AddOne(bounds_min.y) ELSE bounds[2].y
    IN  <<bounds_min, DVec2(max_x, max_y)>>

\* metadata.nonzero_bounding_box(layer)
NonzeroBoundingBox ==
    \E layer \in Ids :
        Query("nonzero_bounding_box", layer, <<>>,
              nonzero_bounding_box(click_targets, layer), "ok")

\* A setter of one cache: the other fields stay as they are.
Setter(op, arg) ==
    /\ CanMutate
    /\ last' = [Call(op, None, None) EXCEPT !.arg = arg]
    /\ UNCHANGED <<structure, artboards, folders, document_to_viewport,
                   iter, yielded, outcome>>

\* metadata.set_selected_nodes(new)
SetSelectedNodes ==
    \E new \in Selections :
        /\ Setter("set_selected_nodes", new)
        /\ selected_nodes' = new
        /\ UNCHANGED <<upstream_transforms, click_targets>>

\* metadata.update_transforms(new_upstream_transforms)
UpdateTransforms ==
    \E new_upstream_transforms \in TransformMaps :
        /\ Setter("update_transforms", new_upstream_transforms)
        /\ upstream_transforms' = new_upstream_transforms
        /\ UNCHANGED <<selected_nodes, click_targets>>

\* metadata.update_click_targets(new_click_targets)
UpdateClickTargets ==
    \E new_click_targets \in ClickTargetMaps :
        /\ Setter("update_click_targets", new_click_targets)
        /\ click_targets' = new_click_targets
        /\ UNCHANGED <<selected_nodes, upstream_transforms>>

\* The layers of the tree, as a caller holding the tree sees them.
Layers == DOMAIN structure

----------------------------------------------------------------------------
\* f64 arithmetic, as Quad::inflate computes with it

\* A significand is a natural number written in digits of LimbBits bits,
\* lowest digit first, Limbs digits wide: wide enough for the 106-bit
\* product of two 53-bit significands.
LimbBits == 14
Limbs == 8
Base == 2 ^ LimbBits
Precision == 53

RECURSIVE Carry(_, _, _)
\* Digits that are too large or negative, brought back into 0..Base-1.
Carry(digits, i, carry) ==
    IF i > Limbs THEN <<>>
    ELSE <<(digits[i] + carry) % Base>>
         \o Carry(digits, i + 1, (digits[i] + carry) \div Base)

Nat0 == Carry([i \in 1..Limbs |-> 0], 1, 0)

\* A number below 2^31 in digits.
NatOf(n) == Carry([i \in 1..Limbs |-> IF i = 1 THEN n ELSE 0], 1, 0)

NatAdd(a, b) == Carry([i \in 1..Limbs |-> a[i] + b[i]], 1, 0)
\* a - b for a >= b.
NatSub(a, b) == Carry([i \in 1..Limbs |-> a[i] - b[i]], 1, 0)
NatLess(a, b) ==
    \E i \in 1..Limbs : a[i] < b[i] /\ \A j \in (i + 1)..Limbs : a[j] = b[j]

Digit(a, i) == IF i \in 1..Limbs THEN a[i] ELSE 0

\* a shifted right and left by n bits.
NatShr(a, n) ==
    LET q == n \div LimbBits
        r == n % LimbBits
    IN  Carry([i \in 1..Limbs |->
                  (Digit(a, i + q) \div (2 ^ r))
                  + (Digit(a, i + q + 1) % (2 ^ r)) * (2 ^ (LimbBits - r))], 1, 0)
NatShl(a, n) ==
    LET q == n \div LimbBits
        r == n % LimbBits
    IN  Carry([i \in 1..Limbs |->
                  (Digit(a, i - q) % (2 ^ (LimbBits - r))) * (2 ^ r)
                  + (Digit(a, i - q - 1) \div (2 ^ (LimbBits - r)))], 1, 0)

\* The number of bits of a, bit k of a, and whether the n lowest bits are 0.
NatBits(a) ==
    IF a = Nat0 THEN 0
    ELSE LET h == CHOOSE i \in 1..Limbs : a[i] # 0 /\ \A j \in (i + 1)..Limbs : a[j] = 0
         IN  (h - 1) * LimbBits
             + (CHOOSE b \in 1..LimbBits : 2 ^ (b - 1) <= a[h] /\ a[h] < 2 ^ b)
NatBit(a, k) == (Digit(a, (k \div LimbBits) + 1) \div (2 ^ (k % LimbBits))) % 2
NatLowZero(a, n) == NatShl(NatShr(a, n), n) = a
\* 2 * a and a / 2.
NatDouble(a) == Carry([i \in 1..Limbs |-> 2 * a[i]], 1, 0)
NatHalve(a) ==
    Carry([i \in 1..Limbs |-> (a[i] \div 2) + (Digit(a, i + 1) % 2) * (Base \div 2)], 1, 0)

\* One partial product of the schoolbook multiplication.
Term(a, b, i, k) == IF k + 1 - i \in 1..4 THEN a[i] * b[k + 1 - i] ELSE 0
\* a * b for a and b below 2^56.
NatMul(a, b) ==
    Carry([k \in 1..Limbs |->
              Term(a, b, 1, k) + Term(a, b, 2, k) + Term(a, b, 3, k) + Term(a, b, 4, k)],
          1, 0)

\* An f64: not a number, an infinity, a zero, or sign * man * 2^exp with
\* 2^52 <= man < 2^53. Infinities and zeros carry a sign: 0.0 and -0.0 are
\* two values. Subnormal numbers and overflow are out of reach of the
\* coordinates used.
Float(kind, sign, man, exp) == [kind |-> kind, sign |-> sign, man |-> man, exp |-> exp]
NaN == Float("nan", 1, Nat0, 0)
Inf(sign) == Float("inf", sign, Nat0, 0)
SignedZero(sign) == Float("zero", sign, Nat0, 0)
Zero == SignedZero(1)
Finite(sign, man, exp) == Float("num", sign, man, exp)

\* sign * man * 2^exp (and a little more when sticky) rounded to the nearest
\* f64, ties to the even significand.
RoundUp(m, drop, sticky) ==
    LET kept == NatShr(m, drop)
        half == NatBit(m, drop - 1) = 1
        below == sticky \/ ~NatLowZero(m, drop - 1)
        up == half /\ (below \/ kept[1] % 2 = 1)
    IN  IF up THEN NatAdd(kept, NatOf(1)) ELSE kept
Round(sign, man, exp, sticky) ==
    CHOOSE value \in UNION
        {{IF m = Nat0 THEN Zero
          ELSE IF drop <= 0 THEN Finite(sign, NatShl(m, 0 - drop), exp + drop)
          ELSE CHOOSE f \in
                   {IF NatBits(rounded) > Precision
                    THEN Finite(sign, NatShr(rounded, 1), exp + drop + 1)
                    ELSE Finite(sign, rounded, exp + drop)
                       : rounded \in {RoundUp(m, drop, sticky)}} : TRUE
             : drop \in {NatBits(m) - Precision}}
            : m \in {man}} : TRUE

\* The f64 of an integer n, and of n / 2^k.
FromInt(n) == Round(IF n < 0 THEN 0 - 1 ELSE 1, NatOf(IF n < 0 THEN 0 - n ELSE n), 0, FALSE)
Dyadic(n, k) == IF n = 0 THEN Zero ELSE [FromInt(n) EXCEPT !.exp = @ - k]

\* -a
FNeg(x) ==
    CHOOSE negated \in
        {IF a.kind \in {"num", "inf", "zero"} THEN [a EXCEPT !.sign = 0 - @] ELSE a
            : a \in {x}} : TRUE

\* a * b
FMul(x, y) ==
    CHOOSE product \in
        {IF a.kind = "nan" \/ b.kind = "nan" THEN NaN
         ELSE IF a.kind = "inf" \/ b.kind = "inf"
              THEN IF a.kind = "zero" \/ b.kind = "zero" THEN NaN ELSE Inf(a.sign * b.sign)
         ELSE IF a.kind = "zero" \/ b.kind = "zero" THEN SignedZero(a.sign * b.sign)
         ELSE Round(a.sign * b.sign, NatMul(a.man, b.man), a.exp + b.exp, FALSE)
            : a \in {x}, b \in {y}} : TRUE

RECURSIVE DivSteps(_, _, _)
\* n steps of long division from the remainder and quotient in from, one
\* quotient bit a step.
DivSteps(from, den, n) ==
    IF n = 0 THEN from
    ELSE CHOOSE r \in
             {DivSteps(IF NatLess(s.rem, den)
                       THEN [rem |-> NatDouble(s.rem), quo |-> NatDouble(s.quo)]
                       ELSE [rem |-> NatDouble(NatSub(s.rem, den)),
                             quo |-> NatAdd(NatDouble(s.quo), NatOf(1))],
                       den, n - 1)
                 : s \in {from}} : TRUE

\* Precision + 3 = 56 steps, in four runs of 14: the quotient of two
\* significands to 55 or 56 bits, and what is left of the dividend.
Divide(num, den) ==
    DivSteps(DivSteps(DivSteps(DivSteps([rem |-> num, quo |-> Nat0], den, LimbBits),
                               den, LimbBits),
                      den, LimbBits),
             den, LimbBits)

\* a / b
FDiv(x, y) ==
    CHOOSE quotient \in
        {IF a.kind = "nan" \/ b.kind = "nan" THEN NaN
         ELSE IF a.kind = "inf" THEN (IF b.kind = "inf" THEN NaN ELSE Inf(a.sign * b.sign))
         ELSE IF b.kind = "inf" THEN SignedZero(a.sign * b.sign)
         ELSE IF b.kind = "zero"
              THEN (IF a.kind = "zero" THEN NaN ELSE Inf(a.sign * b.sign))
         ELSE IF a.kind = "zero" THEN SignedZero(a.sign * b.sign)
         ELSE CHOOSE rounded \in
                  {Round(a.sign * b.sign, d.quo, a.exp - b.exp - (Precision + 2),
                         d.rem # Nat0)
                      : d \in {Divide(a.man, b.man)}} : TRUE
            : a \in {x}, b \in {y}} : TRUE

RECURSIVE SqrtSteps(_, _)
\* n steps of the integer square root from the state in from, one bit of
\* the root a step.
SqrtSteps(from, n) ==
    IF n = 0 THEN from
    ELSE CHOOSE r \in
             {IF s.bit = Nat0 THEN s
              ELSE SqrtSteps(IF NatLess(s.num, NatAdd(s.res, s.bit))
                             THEN [num |-> s.num, res |-> NatHalve(s.res),
                                   bit |-> NatHalve(NatHalve(s.bit))]
                             ELSE [num |-> NatSub(s.num, NatAdd(s.res, s.bit)),
                                   res |-> NatAdd(NatHalve(s.res), s.bit),
                                   bit |-> NatHalve(NatHalve(s.bit))],
                             n - 1)
                 : s \in {from}} : TRUE

\* The integer square root of a number below 2^112, in four runs of 14
\* steps: the root in res and what is left over in num.
SquareRoot(num) ==
    SqrtSteps(SqrtSteps(SqrtSteps(SqrtSteps(
        [num |-> num, res |-> Nat0,
         bit |-> NatShl(NatOf(1), 2 * ((NatBits(num) - 1) \div 2))],
        LimbBits), LimbBits), LimbBits), LimbBits)

\* a.sqrt()
FSqrt(x) ==
    CHOOSE root \in
        {IF a.kind \in {"nan", "zero"} THEN a
         ELSE IF a.sign < 0 THEN NaN
         ELSE IF a.kind = "inf" THEN a
         ELSE LET shift == IF a.exp % 2 = 0 THEN Precision + 3 ELSE Precision + 4
              IN  CHOOSE rounded \in
                      {Round(1, r.res, (a.exp - shift) \div 2, r.num # Nat0)
                          : r \in {SquareRoot(NatShl(a.man, shift))}} : TRUE
            : a \in {x}} : TRUE

\* The sum of two numbers, hi having the larger exponent.
AddAligned(hi, lo) ==
    LET gap == hi.exp - lo.exp
    IN  IF gap > Precision + 4
        THEN IF hi.sign = lo.sign THEN Round(hi.sign, NatShl(hi.man, 2), hi.exp - 2, TRUE)
             ELSE Round(hi.sign, NatSub(NatShl(hi.man, 2), NatOf(1)), hi.exp - 2, TRUE)
        ELSE CHOOSE sum \in
                 {IF hi.sign = lo.sign THEN Round(hi.sign, NatAdd(big, lo.man), lo.exp, FALSE)
                  ELSE IF NatLess(big, lo.man)
                       THEN Round(lo.sign, NatSub(lo.man, big), lo.exp, FALSE)
                  ELSE Round(hi.sign, NatSub(big, lo.man), lo.exp, FALSE)
                     : big \in {NatShl(hi.man, gap)}} : TRUE

\* a + b
FAdd(x, y) ==
    CHOOSE sum \in
        {IF a.kind = "nan" \/ b.kind = "nan" THEN NaN
         ELSE IF a.kind = "inf"
              THEN (IF b.kind = "inf" /\ a.sign # b.sign THEN NaN ELSE a)
         ELSE IF b.kind = "inf" THEN b
         ELSE IF a.kind = "zero" /\ b.kind = "zero"
              THEN (IF a.sign = b.sign THEN a ELSE Zero)
         ELSE IF a.kind = "zero" THEN b
         ELSE IF b.kind = "zero" THEN a
         ELSE IF a.exp >= b.exp THEN AddAligned(a, b)
         ELSE AddAligned(b, a)
            : a \in {x}, b \in {y}} : TRUE

\* a - b
FSub(a, b) ==
    FAdd(a, FNeg(b))

\* std::f64::consts::FRAC_PI_2 = 0x1.921fb54442d18p+0, and the quarter and
\* three quarters of pi that FRAC_PI_2 - angle / 2. gives at a right angle.
FRAC_PI_2 == Finite(1, <<11544, 4368, 8117, 1608, 0, 0, 0, 0>>, 0 - 52)
QuarterPi == Finite(1, <<11544, 4368, 8117, 1608, 0, 0, 0, 0>>, 0 - 53)
ThreeQuarterPi == Finite(1, <<8658, 15564, 6087, 1206, 0, 0, 0, 0>>, 0 - 51)

\* f64::cos where a right-angled corner calls it:
\* cos(0x1.921fb54442d18p-1) = 0x1.6a09e667f3bcdp-1 and
\* cos(0x1.2d97c7f3321d2p+1) = -0x1.6a09e667f3bccp-1.
cos(x) ==
    CHOOSE cosine \in
        {CASE a.kind = "nan" -> NaN
           [] a = QuarterPi -> Finite(1, <<15309, 6652, 2534, 1448, 0, 0, 0, 0>>, 0 - 53)
           [] a = ThreeQuarterPi ->
                  Finite(0 - 1, <<15308, 6652, 2534, 1448, 0, 0, 0, 0>>, 0 - 53)
            : a \in {x}} : TRUE

\* glam's acos_approx for f64, f64::acos(x.clamp(-1.0, 1.0)), where the
\* corner of a box calls it: at 0 and at NaN.
acos_approx(x) ==
    CHOOSE angle \in
        {CASE a.kind = "nan" -> NaN
           [] a.kind = "zero" -> FRAC_PI_2
            : a \in {x}} : TRUE

\* f64::signum
signum(x) ==
    CHOOSE sign \in
        {IF a.kind = "nan" THEN NaN
         ELSE FromInt(a.sign)
            : a \in {x}} : TRUE

\* glam's DVec2 operations.
VAdd(v, w) ==
    CHOOSE sum \in
        {DVec2(FAdd(a.x, b.x), FAdd(a.y, b.y))
            : a \in {v}, b \in {w}} : TRUE
VSub(v, w) ==
    CHOOSE difference \in
        {DVec2(FSub(a.x, b.x), FSub(a.y, b.y))
            : a \in {v}, b \in {w}} : TRUE
VNeg(v) ==
    CHOOSE negated \in
        {DVec2(FNeg(a.x), FNeg(a.y))
            : a \in {v}} : TRUE
VScale(v, factor) ==
    CHOOSE scaled \in
        {DVec2(FMul(a.x, k), FMul(a.y, k))
            : a \in {v}, k \in {factor}} : TRUE
perp(v) ==
    CHOOSE turned \in
        {DVec2(FNeg(a.y), a.x)
            : a \in {v}} : TRUE
dot(v, w) ==
    CHOOSE product \in
        {FAdd(FMul(a.x, b.x), FMul(a.y, b.y))
            : a \in {v}, b \in {w}} : TRUE
perp_dot(v, w) ==
    CHOOSE product \in
        {FSub(FMul(a.x, b.y), FMul(a.y, b.x))
            : a \in {v}, b \in {w}} : TRUE
length_squared(a) == dot(a, a)
length(a) == FSqrt(dot(a, a))
length_recip(a) == FDiv(FromInt(1), length(a))
normalize_or_zero(v) ==
    CHOOSE normalized \in UNION
        {{IF rcp.kind = "num" /\ rcp.sign > 0 THEN VScale(a, rcp) ELSE DVec2(Zero, Zero)
             : rcp \in {length_recip(a)}}
            : a \in {v}} : TRUE
angle_between(v, w) ==
    CHOOSE angle \in
        {FMul(acos_approx(FDiv(dot(a, b),
                               FSqrt(FMul(length_squared(a), length_squared(b))))),
              signum(perp_dot(a, b)))
            : a \in {v}, b \in {w}} : TRUE

\* The closure `offset` of Quad::inflate (lines 53-59): the moved corner.
offset(quad, d, index_before, index, index_after) ==
    CHOOSE moved \in UNION
        {{LET angle == angle_between(line_in, VNeg(line_out))
              offset_length == FDiv(d, cos(FSub(FRAC_PI_2, FDiv(angle, FromInt(2)))))
          IN  VAdd(point,
                   VScale(normalize_or_zero(VAdd(normalize_or_zero(perp(line_in)),
                                                 normalize_or_zero(perp(line_out)))),
                          offset_length))
             : line_in \in {VSub(point, point_before)},
               line_out \in {VSub(point_after, point)}}
            : point_before \in {quad[index_before]}, point \in {quad[index]},
              point_after \in {quad[index_after]}} : TRUE

\* Quad::inflate
inflate(quad, d) ==
    CHOOSE inflated \in
        {LET corners == << <<4, 1, 2>>, <<1, 2, 3>>, <<2, 3, 4>>, <<3, 4, 1>> >>
         IN  SubSeq([i \in 1..4 |-> offset(self, offset_by, corners[i][1], corners[i][2],
                                           corners[i][3])], 1, 4)
            : self \in {quad}, offset_by \in {d}} : TRUE

\* A quad with integer coordinates as the quad of f64 that it is.
QuadF64(quad) ==
    <<DVec2(FromInt(quad[1][1]), FromInt(quad[1][2])),
      DVec2(FromInt(quad[2][1]), FromInt(quad[2][2])),
      DVec2(FromInt(quad[3][1]), FromInt(quad[3][2])),
      DVec2(FromInt(quad[4][1]), FromInt(quad[4][2]))>>

\* DAffine2::transform_point2 and impl Mul<Quad> for DAffine2 on f64
\* coordinates: matrix2 * point + translation.
transform_point2_f64(affine, point) ==
    CHOOSE moved \in
        {DVec2(FAdd(FAdd(FMul(FromInt(affine[1]), p.x), FMul(FromInt(affine[3]), p.y)),
                    FromInt(affine[5])),
               FAdd(FAdd(FMul(FromInt(affine[2]), p.x), FMul(FromInt(affine[4]), p.y)),
                    FromInt(affine[6])))
            : p \in {point}} : TRUE
AffineMulQuadF64(affine, quad) ==
    CHOOSE moved \in
        {SubSeq([i \in 1..4 |-> transform_point2_f64(affine, rhs[i])], 1, 4)
            : rhs \in {quad}} : TRUE

\* Corners of the boxes that are inflated, and the offsets, an offset
\* n / 2^k written <<n, k>>: 0.5.
InflateCoords == {0, 1, 3}
Offsets == { <<1, 1>> }

\* (affine * Quad::from_box([c0, c1])).inflate(d), with
\* affine * Quad::from_box([c0, c1]).inflate(d) next to it.
QuadInflate ==
    \E x0, y0, x1, y1 \in InflateCoords, d \in Offsets, affine \in {IDENTITY, MirrorY} :
        LET box == from_box(<<Vec(x0, y0), Vec(x1, y1)>>)
            quad == AffineMulQuad(affine, box)
            quads == IF affine = IDENTITY THEN <<quad>> ELSE <<quad, box>>
        IN  \E inflated \in {SubSeq([i \in DOMAIN quads |->
                                         inflate(QuadF64(quads[i]), Dyadic(d[1], d[2]))],
                                     1, Len(quads))} :
                \E moved \in {AffineMulQuadF64(affine, inflated[Len(quads)])} :
                    Query("inflate", None, <<quad, d>>,
                          [inflated |-> inflated[1], moved |-> moved], "ok")

----------------------------------------------------------------------------
\* Identifiers over the whole u64 range

\* A NodeId is a u64. A u64 v is written v when it is small and v - 2^64
\* when it is near the top of the range, so u64::MAX is written -1 and the
\* wrapping sum and difference of a u64 and 1 are the integer sum and
\* difference: new_unchecked and to_node above are what a build without
\* overflow checks computes.
U64_MAX == 0 - 1

\* Node keys are taken up to this far from either end of the u64 range.
MaxNear == 5
U64Keys == (0..MaxNear) \cup {U64_MAX - d : d \in 0..MaxNear}

\* node_id + 1 (line 376) and u64::from(self.0) - 1 (line 396) leave the
\* u64 range: a panic in a build with overflow checks, a wrap without them.
AddOverflows(node_id) == node_id = U64_MAX
SubOverflows(stored) == stored = 0

\* The u64 is 1 or more.
U64AtLeastOne(stored) == stored # 0

\* How a call that computes sums and differences ends in either build.
Arithmetic(overflow_checks, overflows) ==
    IF overflow_checks /\ overflows THEN "abort" ELSE "ok"

\* LayerNodeIdentifier::new_unchecked(node_id)
NewUnchecked ==
    \E node_id \in U64Keys, overflow_checks \in BOOLEAN :
        Query("new_unchecked", None, <<node_id>>, new_unchecked(node_id),
              Arithmetic(overflow_checks, AddOverflows(node_id)))

\* LayerNodeIdentifier::new_unchecked(node_id).to_node()
ToNode ==
    \E node_id \in U64Keys, overflow_checks \in BOOLEAN :
        Query("to_node", new_unchecked(node_id), <<node_id>>,
              to_node(new_unchecked(node_id)),
              Arithmetic(overflow_checks,
                         AddOverflows(node_id) \/ SubOverflows(new_unchecked(node_id))))

\* LayerNodeIdentifier::new_unchecked(a) == LayerNodeIdentifier::new_unchecked(b)
IdentifiersEqual ==
    \E a, b \in U64Keys, overflow_checks \in BOOLEAN :
        Query("eq", new_unchecked(a), <<a, b>>, new_unchecked(a) = new_unchecked(b),
              Arithmetic(overflow_checks, AddOverflows(a) \/ AddOverflows(b)))

----------------------------------------------------------------------------
\* The selection

\* selected_nodes holds at most this many node keys.
MaxSelected == 4

\* The node keys add_selected_nodes is called with, and the keys the closure
\* of retain_selected_nodes answers true for.
AddedKeys == { <<2>>, <<3, 1>> }
RetainedKeys == { {1, 5}, {2, 3, 7} }

\* metadata.add_selected_nodes(iter)
AddSelectedNodes ==
    \E added \in AddedKeys :
        /\ Len(selected_nodes) + Len(added) <= MaxSelected
        /\ Setter("add_selected_nodes", added)
        /\ selected_nodes' = selected_nodes \o added
        /\ UNCHANGED <<upstream_transforms, click_targets>>

\* metadata.retain_selected_nodes(|node| keep.contains(node))
RetainSelectedNodes ==
    \E keep \in RetainedKeys :
        /\ Setter("retain_selected_nodes", keep)
        /\ selected_nodes' = SelectSeq(selected_nodes, LAMBDA node : node \in keep)
        /\ UNCHANGED <<upstream_transforms, click_targets>>

\* metadata.all_layers().collect()
all_layers(s) == DecendantsForward(s, ROOT)

\* The selected keys mapped to their layers one by one, in selection order.
selected_in_selection_order(s, selected) ==
    LET hits == SelectSeq(selected, LAMBDA node :
                    \E i \in 1..Len(all_layers(s)) : all_layers(s)[i] = new_unchecked(node))
    IN  [i \in 1..Len(hits) |-> new_unchecked(hits[i])]

\* metadata.selected_layers().collect(): all_layers filtered by
\* selected_nodes.contains(&layer.to_node()).
selected_layers(s, selected) ==
    IF all_layers(s) = DivergeSeq THEN DivergeSeq
    ELSE SelectSeq(all_layers(s),
                   LAMBDA layer : \E i \in 1..Len(selected) : selected[i] = to_node(layer))

\* metadata.selected_layers_contains(layer)
selected_layers_contains(s, selected, layer) ==
    /\ selected_layers(s, selected) # DivergeSeq
    /\ \E i \in 1..Len(selected_layers(s, selected)) : selected_layers(s, selected)[i] = layer

\* metadata.selected_layers().collect()
SelectedLayers ==
    Query("selected_layers", None, selected_nodes,
          selected_layers(structure, selected_nodes),
          IF all_layers(structure) = DivergeSeq THEN "hang" ELSE "ok")

\* metadata.selected_layers_contains(layer)
SelectedLayersContains ==
    \E layer \in Ids :
        Query("selected_layers_contains", layer, selected_nodes,
              selected_layers_contains(structure, selected_nodes, layer),
              IF all_layers(structure) = DivergeSeq THEN "hang" ELSE "ok")

\* The tree edited through identifiers of its own layers, and iterated.
NextTree ==
    \/ PushFrontChild(Layers, Ids)
    \/ PushChild(Layers, Ids)
    \/ AddBefore(Layers \ {ROOT}, Ids)
    \/ AddAfter(Layers \ {ROOT}, Ids)
    \/ Delete(Ids \ {ROOT})
    \/ Decendants(Ids)
    \/ IteratorNext
    \/ IteratorNextBack
    \/ IteratorDrop

SpecTree == Init /\ [][NextTree]_vars

\* The edits called with arbitrary identifiers as parent, anchor and node.
NextAny ==
    \/ PushFrontChild(AnyIds, AnyIds)
    \/ PushChild(AnyIds, AnyIds)
    \/ AddBefore(AnyIds, AnyIds)
    \/ AddAfter(AnyIds, AnyIds)
    \/ Delete(AnyIds)

SpecAny == Init /\ [][NextAny]_vars

\* The tree rebuilt from graph snapshots and edited in between.
NextDoc ==
    \/ LoadStructure
    \/ PushChild(Layers, Ids)
    \/ Delete(Ids \ {ROOT})

SpecDoc == Init /\ [][NextDoc]_vars

\* The caches filled by their setters and pruned by rebuilds.
NextCache ==
    \/ LoadStructure
    \/ SetSelectedNodes
    \/ UpdateTransforms
    \/ UpdateClickTargets

SpecCache == Init /\ [][NextCache]_vars

QueryOps ==
    {"shallowest_unique_layers", "deepest_common_ancestor", "child_of_root",
     "transform_to_viewport", "downstream_transform_to_viewport", "contains",
     "nonzero_bounding_box", "selected_layers", "selected_layers_contains",
     "new_unchecked", "to_node", "eq", "inflate"}

\* No question has been asked yet.
Fresh == last.op \notin QueryOps

\* A tree built by rebuilds and appended children, then asked one question.
\* A query leaves the metadata as it was, so the calls that could follow it
\* are the calls that follow the state it was asked in.
NextQuery ==
    \/ Fresh /\ LoadStructure
    \/ Fresh /\ PushChild(Layers, Ids)
    \/ Fresh /\ ShallowestUniqueLayers
    \/ Fresh /\ DeepestCommonAncestor
    \/ Fresh /\ ChildOfRoot

SpecQuery == Init /\ [][NextQuery]_vars

\* A tree with cached transforms, asked one question about a layer.
NextView ==
    \/ Fresh /\ PushChild(Layers, Ids)
    \/ Fresh /\ UpdateTransforms
    \/ Fresh /\ SetDocumentToViewport
    \/ Fresh /\ TransformToViewport
    \/ Fresh /\ DownstreamTransformToViewport

SpecView == Init /\ [][NextView]_vars

\* Layers with cached click targets, asked for their bounds.
NextBounds ==
    \/ Fresh /\ PushChild(Layers, Ids)
    \/ Fresh /\ UpdateClickTargets
    \/ Fresh /\ NonzeroBoundingBox

SpecBounds == Init /\ [][NextBounds]_vars

\* Quads made from boxes and asked about points.
NextQuad == Fresh /\ QuadContains

SpecQuad == Init /\ [][NextQuad]_vars

\* A tree and a selection built side by side, then asked for the selected
\* layers.
NextSelect ==
    \/ Fresh /\ PushChild(Layers, Ids)
    \/ Fresh /\ SetSelectedNodes
    \/ Fresh /\ AddSelectedNodes
    \/ Fresh /\ RetainSelectedNodes
    \/ Fresh /\ SelectedLayers
    \/ Fresh /\ SelectedLayersContains

SpecSelect == Init /\ [][NextSelect]_vars

\* Identifiers made from node keys at both ends of the u64 range.
NextIdent ==
    \/ Fresh /\ NewUnchecked
    \/ Fresh /\ ToNode
    \/ Fresh /\ IdentifiersEqual

SpecIdent == Init /\ [][NextIdent]_vars

\* Boxes, mirrored or not, inflated.
NextInflate == Fresh /\ QuadInflate

SpecInflate == Init /\ [][NextInflate]_vars

----------------------------------------------------------------------------
\* Vocabulary of the properties.

SeqToSet(q) == {q[i] : i \in 1..Len(q)}
Reverse(q) == [i \in 1..Len(q) |-> q[Len(q) + 1 - i]]
Count(q, x) == Cardinality({i \in 1..Len(q) : q[i] = x})
NoDuplicates(q) == Cardinality(SeqToSet(q)) = Len(q)
IndexOf(q, x) == CHOOSE i \in 1..Len(q) : q[i] = x
Without(q, x) == SelectSeq(q, LAMBDA y : y # x)
InsertedBefore(q, x, new) ==
    SubSeq(q, 1, IndexOf(q, x) - 1) \o <<new>> \o SubSeq(q, IndexOf(q, x), Len(q))
InsertedAfter(q, x, new) ==
    SubSeq(q, 1, IndexOf(q, x)) \o <<new>> \o SubSeq(q, IndexOf(q, x) + 1, Len(q))
OrNone(q, i) == IF i \in 1..Len(q) THEN q[i] ELSE None

\* The backward child chain of p: last_child(p), previous_sibling, ...
BackwardChain(s, p) == AxisSeq(s, "previous_sibling", last_child(s, p), Fuel)

\* The keys other than n whose ancestor chain contains n.
SubtreeOf(s, n) == {m \in (DOMAIN s) \ {n} : n \in SeqToSet(ancestors(s, m))}

RECURSIVE PreOrderOf(_, _, _)
\* Pre-order of the subtrees rooted at the nodes of `kids`, by definition:
\* each node, then its children in first_child -> next_sibling order.
PreOrderOf(s, kids, fuel) ==
    IF kids = <<>> \/ kids = DivergeSeq \/ fuel = 0 THEN <<>>
    ELSE <<Head(kids)>> \o PreOrderOf(s, children(s, Head(kids)), fuel - 1)
                        \o PreOrderOf(s, Tail(kids), fuel - 1)

PreOrder(s, n) == PreOrderOf(s, children(s, n), 2 * Fuel)

----------------------------------------------------------------------------
\* C1: after any sequence of inserts and deletes, every non-root key n has a
\* parent p, n occurs exactly once in p's forward child chain and exactly once
\* in p's backward chain, the backward chain is the reverse of the forward
\* chain, and every node on the chains has parent p.
C1_TreeConsistency ==
    \A n \in (DOMAIN structure) \ {ROOT} :
        LET p == parent(structure, n)
            f == children(structure, p)
            b == BackwardChain(structure, p)
        IN  /\ p # None
            /\ f # DivergeSeq /\ b # DivergeSeq
            /\ Count(f, n) = 1
            /\ Count(b, n) = 1
            /\ b = Reverse(f)
            /\ \A i \in 1..Len(f) : parent(structure, f[i]) = p

\* C2: an insert whose `new` is already a key (ROOT included) aborts and
\* leaves structure exactly as it was before the call.
C2_InsertExistingAborts ==
    (last.op \in InsertOps /\ last.new \in DOMAIN last.pre)
        => (outcome = "abort" /\ structure = last.pre)

C2_Witness ==
    /\ last.op = "add_after"
    /\ last.new = ROOT
    /\ outcome = "abort"
    /\ Cardinality(DOMAIN structure) >= 3

\* C3: delete(node) removes exactly node and its descendants; the former
\* previous and next siblings become adjacent, the parent's remaining children
\* keep their order, and the parent's first_child/last_child are the new
\* boundary children (None when node was the only child).
C3_Delete ==
    (last.op = "delete" /\ outcome = "ok") =>
        LET s0 == last.pre
            node == last.self
            prev == previous_sibling(s0, node)
            next == next_sibling(s0, node)
            p == parent(s0, node)
            rest == Without(children(s0, p), node)
        IN  /\ DOMAIN structure = (DOMAIN s0) \ ({node} \cup SubtreeOf(s0, node))
            /\ prev # None => next_sibling(structure, prev) = next
            /\ next # None => previous_sibling(structure, next) = prev
            /\ p # None =>
                /\ children(structure, p) = rest
                /\ first_child(structure, p) = OrNone(rest, 1)
                /\ last_child(structure, p) = OrNone(rest, Len(rest))

\* A middle child is deleted: both neighbours exist and become adjacent.
C3_Witness ==
    /\ last.op = "delete"
    /\ outcome = "ok"
    /\ previous_sibling(last.pre, last.self) # None
    /\ next_sibling(last.pre, last.self) # None
    /\ Len(children(structure, parent(last.pre, last.self))) = 2

\* C4: for a parent that is a key and a `new` that is not, push_child appends
\* new to the parent's child sequence and push_front_child prepends it; new's
\* parent is the parent and new has no children.
C4_PushChild ==
    (last.op \in {"push_child", "push_front_child"} /\ outcome = "ok"
        /\ last.self \in DOMAIN last.pre) =>
        /\ children(structure, last.self) =
             IF last.op = "push_child"
             THEN Append(children(last.pre, last.self), last.new)
             ELSE <<last.new>> \o children(last.pre, last.self)
        /\ parent(structure, last.new) = last.self
        /\ children(structure, last.new) = <<>>
        /\ last_child(structure, last.new) = None

C4_Witness ==
    /\ last.op = "push_child"
    /\ outcome = "ok"
    /\ last.self # ROOT
    /\ Len(children(last.pre, last.self)) = 1
    /\ Len(children(structure, last.self)) = 2

\* C5: for a non-root anchor that is a key and a `new` that is not,
\* add_before / add_after inserts new immediately before / after the anchor in
\* the child sequence of the anchor's parent, gives new that parent, and moves
\* the parent's first_child / last_child to new exactly when the anchor was
\* that boundary child.
C5_AddSibling ==
    (last.op \in {"add_before", "add_after"} /\ outcome = "ok"
        /\ last.self \in (DOMAIN last.pre) \ {ROOT}) =>
        LET s0 == last.pre
            anchor == last.self
            p == parent(s0, anchor)
        IN  /\ p # None
            /\ parent(structure, last.new) = p
            /\ children(structure, p) =
                 IF last.op = "add_before"
                 THEN InsertedBefore(children(s0, p), anchor, last.new)
                 ELSE InsertedAfter(children(s0, p), anchor, last.new)
            /\ last.op = "add_before" =>
                 first_child(structure, p) =
                    IF first_child(s0, p) = anchor THEN last.new ELSE first_child(s0, p)
            /\ last.op = "add_after" =>
                 last_child(structure, p) =
                    IF last_child(s0, p) = anchor THEN last.new ELSE last_child(s0, p)

\* add_before on the first child of a non-root parent that has two children.
C5_Witness ==
    /\ last.op = "add_before"
    /\ outcome = "ok"
    /\ parent(last.pre, last.self) \notin {None, ROOT}
    /\ first_child(last.pre, parent(last.pre, last.self)) = last.self
    /\ first_child(structure, parent(last.pre, last.self)) = last.new

\* C6: for every node n the forward iteration of decendants(n) yields exactly
\* the nodes other than n whose ancestor chain contains n, each once, in
\* pre-order, and never a node outside n's subtree.
C6_ForwardPreOrder ==
    \A n \in Ids :
        LET d == DecendantsForward(structure, n)
        IN  /\ d # DivergeSeq
            /\ d = PreOrder(structure, n)
            /\ NoDuplicates(d)
            /\ SeqToSet(d) = SubtreeOf(structure, n)

\* A node with a child and a following sibling: its descendants stop short
\* of the sibling, and the root's walk climbs from the grandchild to it.
C6_Witness ==
    \E n \in (DOMAIN structure) \ {ROOT} :
        /\ next_sibling(structure, n) # None
        /\ Len(DecendantsForward(structure, n)) = 1
        /\ Len(DecendantsForward(structure, ROOT)) = 3

\* C7: consuming decendants(ROOT) with next_back only gives the reverse of
\* consuming it with next only.
C7_BackwardIsReverse ==
    /\ DecendantsBackward(structure, ROOT) # DivergeSeq
    /\ DecendantsBackward(structure, ROOT) = Reverse(DecendantsForward(structure, ROOT))

\* The last top-level layer has a previous sibling with a child, so that the
\* backward walk has to descend into the sibling's last descendant.
C7_Witness ==
    \E n \in DOMAIN structure :
        /\ parent(structure, n) = ROOT
        /\ next_sibling(structure, n) # None
        /\ first_child(structure, n) # None
        /\ Len(DecendantsBackward(structure, ROOT)) = 3

\* C8: under any interleaving of next and next_back the cursors never cross:
\* the items returned by next followed by the reversed items returned by
\* next_back are a prefix and a suffix of the pre-order sequence that never
\* overlap, the cursors stand on the first and last item not yet returned,
\* None is returned only once every descendant has been returned, and from
\* then on both cursors are None and both calls return None.
C8_CursorsNeverCross ==
    iter.active =>
        LET pre == PreOrder(structure, iter.node)
            f == yielded.front
            b == yielded.back
            L == Len(pre)
        IN  /\ Len(f) + Len(b) <= L
            /\ f = SubSeq(pre, 1, Len(f))
            /\ Reverse(b) = SubSeq(pre, L - Len(b) + 1, L)
            /\ Len(f) + Len(b) < L =>
                /\ iter.front = pre[Len(f) + 1]
                /\ iter.back = pre[L - Len(b)]
                /\ yielded.nones = 0
            /\ Len(f) + Len(b) = L =>
                /\ iter.front = None
                /\ iter.back = None
                /\ IterNext(structure, iter).item = None
                /\ IterNextBack(structure, iter).item = None

\* Both directions were used, everything was returned, then None was.
C8_Witness ==
    /\ iter.active
    /\ Len(yielded.front) >= 1
    /\ Len(yielded.back) >= 1
    /\ Len(yielded.front) + Len(yielded.back) = 3
    /\ yielded.nones = MaxNones
    /\ last.op = "next_back"

\* C9: ROOT is a key of structure in every state reachable by the public
\* operations, delete on any identifier included.
C9_RootIsAKey == ROOT \in DOMAIN structure

\* The output node of g has no layer upstream of its primary input.
NoUpstreamLayer(g) ==
    \/ g.output \notin DOMAIN g.nodes
    \/ g.nodes[g.output].inputs[1] = NoInput
    \/ \A n \in SeqToSet(upstream_flow_back_from_nodes(g, g.nodes[g.output].inputs[1])) :
           ~is_layer(g.nodes[n])

DefaultMetadata == Walk(DefaultStructure, {}, {}, "walked")

\* C10: load_structure(graph) gives the structure, artboards and folders
\* that the same call gives on a default DocumentMetadata, whatever the state
\* before it; with no layer upstream of the output node that is the root
\* alone, without links, and no artboards or folders.
C10_LoadDependsOnGraphOnly ==
    (last.op = "load_structure" /\ outcome = "ok") =>
        /\ structure = load_structure(DefaultMetadata, last.graph).structure
        /\ artboards = load_structure(DefaultMetadata, last.graph).artboards
        /\ folders = load_structure(DefaultMetadata, last.graph).folders
        /\ NoUpstreamLayer(last.graph) =>
            /\ structure = DefaultStructure
            /\ artboards = {}
            /\ folders = {}

\* A rebuild over a tree that held other layers, among them one the new
\* graph has too, giving a tree with artboards and folders.
C10_Witness ==
    /\ last.op = "load_structure"
    /\ outcome = "ok"
    /\ (DOMAIN last.pre) \ (DOMAIN structure) # {}
    /\ (DOMAIN last.pre) \cap (DOMAIN structure) # {ROOT}
    /\ Cardinality(DOMAIN structure) = 3
    /\ artboards # {}
    /\ folders # {}

\* C11: after every load_structure(graph), whatever the graph holds, every
\* entry of selected_nodes and every key of upstream_transforms is a node key
\* of the graph and every key of click_targets is a key of the rebuilt
\* structure.
C11_CachesPruned ==
    (last.op = "load_structure" /\ outcome = "ok") =>
        /\ \A i \in 1..Len(selected_nodes) : selected_nodes[i] \in DOMAIN last.graph.nodes
        /\ DOMAIN upstream_transforms \subseteq DOMAIN last.graph.nodes
        /\ DOMAIN click_targets \subseteq DOMAIN structure

\* C12: load_structure terminates on every finite graph, graphs whose layers
\* reference each other cyclically or are shared included: no call of it
\* ends in an endless loop.
C12_LoadTerminates == last.op = "load_structure" => outcome # "hang"

\* C13: in every reachable state, states reached by delete after a
\* load_structure included, every artboard and every folder is a key of
\* structure.
C13_TagsAreLayers ==
    /\ artboards \subseteq DOMAIN structure
    /\ folders \subseteq DOMAIN structure

\* The layer a root-to-self path leads to.
PathEnd(path) == path[Len(path)]

\* C14: shallowest_unique_layers returns root-to-self paths of layers such
\* that no returned layer is equal to or a descendant of another returned
\* layer, every returned layer is an input layer, and every input layer is
\* equal to or a descendant of a returned layer.
C14_ShallowestUniqueLayers ==
    (last.op = "shallowest_unique_layers") =>
        LET paths == last.result
            layers == last.arg
        IN  /\ \A i \in 1..Len(paths) :
                   /\ paths[i] # <<>>
                   /\ paths[i] = Reverse(ancestors(structure, PathEnd(paths[i])))
                   /\ PathEnd(paths[i]) \in SeqToSet(layers)
            /\ \A i, j \in 1..Len(paths) :
                   i # j => PathEnd(paths[i]) \notin
                                SeqToSet(ancestors(structure, PathEnd(paths[j])))
            /\ \A k \in 1..Len(layers) :
                   \E i \in 1..Len(paths) :
                       PathEnd(paths[i]) \in SeqToSet(ancestors(structure, layers[k]))

\* Three layers picked out of sorted order, one of them twice over and one a
\* descendant of another: one path is dropped, two are returned.
C14_Witness ==
    /\ last.op = "shallowest_unique_layers"
    /\ Len(last.arg) = 3
    /\ Len(last.result) = 2
    /\ \E i, j \in 1..3 :
           /\ i < j
           /\ last.arg[i] # last.arg[j]
           /\ last.arg[j] \in SeqToSet(ancestors(structure, last.arg[i]))
    /\ ROOT \notin SeqToSet(last.arg)

\* The path the specification gives a layer as ancestor candidate: its
\* root-to-self path, without the layer itself exactly when include_self is
\* false and the layer is a folder.
StatedCandidate(layer, include_self) ==
    LET path == Reverse(ancestors(structure, layer))
    IN  IF ~include_self /\ layer \in folders
        THEN SubSeq(path, 1, Len(path) - 1)
        ELSE path

\* The longest sequence that is a prefix of every one of the paths.
LongestCommonPrefix(paths) ==
    LET shared == {n \in 0..Len(paths[1]) :
                      \A i \in 1..Len(paths) :
                          n <= Len(paths[i]) /\ SubSeq(paths[i], 1, n) = SubSeq(paths[1], 1, n)}
    IN  SubSeq(paths[1], 1, CHOOSE n \in shared : \A k \in shared : k <= n)

\* C15: deepest_common_ancestor(layers, include_self) returns the last
\* element of the longest common prefix of the layers' candidate paths, None
\* when that prefix is empty or there are no layers; the candidate path drops
\* the layer itself exactly when include_self is false and it is a folder.
C15_DeepestCommonAncestor ==
    (last.op = "deepest_common_ancestor") =>
        LET layers == last.arg[1]
            paths == [i \in 1..Len(layers) |-> StatedCandidate(layers[i], last.arg[2])]
            common == IF layers = <<>> THEN <<>> ELSE LongestCommonPrefix(paths)
        IN  last.result = IF common = <<>> THEN None ELSE common[Len(common)]

\* C16: for two distinct layers that are both direct children of ROOT,
\* deepest_common_ancestor returns ROOT, for either value of include_self and
\* whether or not each of them is a folder.
C16_TopLevelSiblingsMeetAtRoot ==
    ( /\ last.op = "deepest_common_ancestor"
      /\ Len(last.arg[1]) = 2
      /\ last.arg[1][1] # last.arg[1][2]
      /\ parent(structure, last.arg[1][1]) = ROOT
      /\ parent(structure, last.arg[1][2]) = ROOT )
        => last.result = ROOT

\* Two children of ROOT, a folder and a layer that is not one, asked for
\* without include_self: one path keeps its layer, the other does not.
C16_Witness ==
    /\ last.op = "deepest_common_ancestor"
    /\ Len(last.arg[1]) = 2
    /\ last.arg[2] = FALSE
    /\ last.arg[1][1] \in folders
    /\ last.arg[1][2] \notin folders
    /\ parent(structure, last.arg[1][1]) = ROOT
    /\ parent(structure, last.arg[1][2]) = ROOT
    /\ last.result = ROOT

\* C17: child_of_root(self) either returns a layer on self's ancestor chain
\* (self included) whose parent is ROOT, or aborts; it aborts when self is
\* ROOT and when self is disconnected: not a key of structure, or with a
\* parent chain that does not reach ROOT.
C17_ChildOfRoot ==
    (last.op = "child_of_root") =>
        /\ outcome \in {"ok", "abort"}
        /\ outcome = "ok" =>
               /\ last.result \in SeqToSet(ancestors(structure, last.self))
               /\ parent(structure, last.result) = ROOT
        /\ ( \/ last.self = ROOT
             \/ last.self \notin DOMAIN structure
             \/ ROOT \notin SeqToSet(ancestors(structure, last.self)) )
               => outcome = "abort"

\* The node keys along layer's ancestor chain, layer itself first.
ChainKeys(layer) ==
    [i \in 1..Len(ancestors(structure, layer)) |-> to_node(ancestors(structure, layer)[i])]

\* The first position on layer's ancestor chain with a cached transform, or
\* None.
FirstCached(layer) ==
    LET cached == {i \in 1..Len(ChainKeys(layer)) :
                      ChainKeys(layer)[i] \in DOMAIN upstream_transforms}
    IN  IF cached = {} THEN None ELSE CHOOSE i \in cached : \A j \in cached : i <= j

\* contextTransform * nodeTransform of the first cached node on layer's
\* ancestor chain, document_to_viewport when there is none.
StatedTransformToViewport(layer) ==
    IF FirstCached(layer) = None THEN document_to_viewport
    ELSE AffineMul(upstream_transforms[ChainKeys(layer)[FirstCached(layer)]][1],
                   upstream_transforms[ChainKeys(layer)[FirstCached(layer)]][2])

\* C18: transform_to_viewport(layer) is contextTransform * nodeTransform of
\* the first node on layer's ancestor chain (layer first, up to ROOT) with an
\* entry in upstream_transforms, document_to_viewport when there is none;
\* downstream_transform_to_viewport(layer) is layer's own context transform
\* when layer has an entry, and transform_to_viewport(layer) otherwise.
C18_TransformToViewport ==
    /\ last.op = "transform_to_viewport"
           => last.result = StatedTransformToViewport(last.self)
    /\ last.op = "downstream_transform_to_viewport"
           => last.result = IF to_node(last.self) \in DOMAIN upstream_transforms
                            THEN upstream_transforms[to_node(last.self)][1]
                            ELSE StatedTransformToViewport(last.self)

\* A layer without an entry of its own, below a layer that has one and
\* above the root, which has one too: the nearer entry is the answer.
C18_Witness ==
    /\ last.op = "transform_to_viewport"
    /\ FirstCached(last.self) = 2
    /\ to_node(ROOT) \in DOMAIN upstream_transforms
    /\ Len(ChainKeys(last.self)) = 3
    /\ last.result # document_to_viewport
    /\ last.result # AffineMul(upstream_transforms[ChainKeys(last.self)[2]][2],
                                upstream_transforms[ChainKeys(last.self)[2]][1])

\* The extent of a quad's corners along axis k (1 for x, 2 for y).
Least(quad, k) == CHOOSE v \in {quad[i][k] : i \in 1..4} : \A i \in 1..4 : v <= quad[i][k]
Most(quad, k) == CHOOSE v \in {quad[i][k] : i \in 1..4} : \A i \in 1..4 : v >= quad[i][k]

StrictlyInside(quad, point) ==
    \A k \in 1..2 : Least(quad, k) < point[k] /\ point[k] < Most(quad, k)

StrictlyOutside(quad, point) ==
    \E k \in 1..2 : point[k] < Least(quad, k) \/ point[k] > Most(quad, k)

\* C19: for a quad made by from_box from opposite corners of a box with
\* nonzero width and height, in either corner order and mirrored about the Y
\* axis or not, contains(p) is true for every point strictly inside the box
\* and false for every point strictly outside it.
C19_QuadContains ==
    (last.op = "contains") =>
        /\ StrictlyInside(last.arg[1], last.arg[2]) => last.result = TRUE
        /\ StrictlyOutside(last.arg[1], last.arg[2]) => last.result = FALSE

\* The anchors of all click targets cached for layer.
CachedPoints(layer) ==
    IF layer \notin DOMAIN click_targets THEN {}
    ELSE UNION {SeqToSet(click_targets[layer][i]) : i \in 1..Len(click_targets[layer])}

\* The least and the greatest of a nonempty set of f64 values.
F64Least(vs) == CHOOSE v \in vs : \A w \in vs : ~F64Less(w, v)
F64Most(vs) == CHOOSE v \in vs : \A w \in vs : ~F64Less(v, w)

\* The untransformed bounding box of layer, the zero box when it has no
\* cached shapes.
UntransformedBox(layer) ==
    LET points == CachedPoints(layer)
    IN  IF points = {} THEN ZeroBox
        ELSE << DVec2(F64Least({q.x : q \in points}), F64Least({q.y : q \in points})),
                DVec2(F64Most({q.x : q \in points}), F64Most({q.y : q \in points})) >>

\* C20: nonzero_bounding_box(layer) returns the untransformed bounding box
\* (the zero box when there are no cached shapes) with the minimum unchanged
\* and, on each axis by itself, the maximum set to minimum + 1 exactly when
\* the extent on that axis is below the threshold; the returned box has a
\* strictly positive extent on both axes.
C20_NonzeroBoundingBox ==
    (last.op = "nonzero_bounding_box") =>
        LET box == UntransformedBox(last.self)
        IN  /\ last.result[1] = box[1]
            /\ last.result[2].x = IF BelowEpsilon(F64Sub(box[2].x, box[1].x))
                                  THEN F64AddOneExact(box[1].x) ELSE box[2].x
            /\ last.result[2].y = IF BelowEpsilon(F64Sub(box[2].y, box[1].y))
                                  THEN F64AddOneExact(box[1].y) ELSE box[2].y
            /\ F64Less(last.result[1].x, last.result[2].x)
            /\ F64Less(last.result[1].y, last.result[2].y)

----------------------------------------------------------------------------
\* The layers of a graph as the rebuild is stated to find them.

RECURSIVE LayerChain(_, _, _)
\* A layer and the layers linked below it through second inputs, in order.
LayerChain(g, node, fuel) ==
    IF node \in {NoInput, Diverge} \/ fuel = 0 THEN <<>>
    ELSE <<node>> \o LayerChain(g, sibling_below(g, g.nodes[node]), fuel - 1)

\* The nearest upstream layer of a node's first input and the chain below it.
ChainOfFirstInput(g, node) ==
    LayerChain(g, first_child_layer(g, node), MaxGraphNodes + 1)

\* The chain that hangs off the output node.
TopChain(g) ==
    IF g.output \in DOMAIN g.nodes THEN ChainOfFirstInput(g, g.nodes[g.output])
    ELSE <<>>

RECURSIVE ReachedFrom(_, _, _)
\* The layers reached from a set of layers through first inputs and chains.
ReachedFrom(g, seen, fuel) ==
    LET more == seen \cup UNION {SeqToSet(ChainOfFirstInput(g, g.nodes[n])) : n \in seen}
    IN  IF more = seen \/ fuel = 0 THEN seen ELSE ReachedFrom(g, more, fuel - 1)

ReachedLayers(g) == ReachedFrom(g, SeqToSet(TopChain(g)), MaxGraphNodes + 1)

\* The identifiers of a sequence of node keys.
Identifiers(keys) == [i \in 1..Len(keys) |-> new_unchecked(keys[i])]

\* C22: after load_structure(graph) the non-root keys of structure are
\* exactly the identifiers of the layer nodes reached by the walk, whatever
\* their node keys; the children of ROOT are, in order, the nearest upstream
\* layer of the output node's first input and the chain of layers below it;
\* and the children of every registered layer are, in order, the chain of its
\* first input without the layers that were registered under another parent.
C22_StructureIsTheLayerTree ==
    (last.op = "load_structure" /\ outcome = "ok") =>
        LET g == last.graph
        IN  /\ \A n \in ReachedLayers(g) : new_unchecked(n) \in (DOMAIN structure) \ {ROOT}
            /\ \A k \in (DOMAIN structure) \ {ROOT} :
                   /\ to_node(k) \in ReachedLayers(g)
                   /\ is_layer(g.nodes[to_node(k)])
            /\ children(structure, ROOT) = Identifiers(TopChain(g))
            /\ \A n \in ReachedLayers(g) :
                   children(structure, new_unchecked(n)) =
                       SelectSeq(Identifiers(ChainOfFirstInput(g, g.nodes[n])),
                                 LAMBDA k : parent(structure, k) = new_unchecked(n))

\* The layers stated to be selected: the descendants of ROOT, in pre-order,
\* whose node key occurs in the selection.
StatedSelection ==
    SelectSeq(PreOrder(structure, ROOT),
              LAMBDA layer : Count(selected_nodes, layer - 1) >= 1)

\* C23: whatever sequence of node keys set_selected_nodes,
\* add_selected_nodes and retain_selected_nodes have left in selected_nodes
\* (repeated keys and keys of no node included), selected_layers yields the
\* descendants of ROOT whose node key occurs in it, each once, in forward
\* pre-order of the tree, and selected_layers_contains(l) is true exactly
\* for those layers.
C23_SelectedLayers ==
    /\ (last.op = "selected_layers") =>
           /\ last.result = StatedSelection
           /\ NoDuplicates(last.result)
    /\ (last.op = "selected_layers_contains") =>
           (last.result <=> last.self \in SeqToSet(StatedSelection))

\* A selection grown by add_selected_nodes that names one layer twice, a key
\* without a node, and two layers in the opposite of their tree order.
C23_Witness ==
    /\ last.op = "selected_layers"
    /\ Len(last.result) = 2
    /\ \E i, j \in 1..Len(selected_nodes) :
           /\ i < j
           /\ selected_nodes[i] = last.result[2] - 1
           /\ selected_nodes[j] = last.result[1] - 1
    /\ \E i, j \in 1..Len(selected_nodes) : i # j /\ selected_nodes[i] = selected_nodes[j]
    /\ \E i \in 1..Len(selected_nodes) : selected_nodes[i] + 1 \notin DOMAIN structure

\* C24: in every state reached from the default metadata by
\* push_front_child, push_child, add_before, add_after and delete called with
\* arbitrary identifiers, every key of structure other than ROOT has a parent
\* chain that ends, and ends at ROOT; all_layers() returns and enumerates
\* exactly the keys other than ROOT.
C24_EveryKeyHangsOffRoot ==
    (outcome = "ok") =>
        /\ \A k \in (DOMAIN structure) \ {ROOT} :
               /\ ancestors(structure, k) # DivergeSeq
               /\ ROOT \in SeqToSet(ancestors(structure, k))
        /\ all_layers(structure) # DivergeSeq
        /\ SeqToSet(all_layers(structure)) = (DOMAIN structure) \ {ROOT}

\* The sibling next to the place where an insert puts the new node.
AdjacentSibling(s, op, self) ==
    CASE op = "push_front_child" -> first_child(s, self)
      [] op = "push_child" -> last_child(s, self)
      [] op = "add_before" -> previous_sibling(s, self)
      [] op = "add_after" -> next_sibling(s, self)

\* The nodes whose relation record an insert is stated to write.
Touched(s, op, self, new) ==
    {new, self, AdjacentSibling(s, op, self), parent(s, self)}

\* A step that is a call of one of the four inserts that did not abort.
InsertReturned ==
    /\ last'.op \in InsertOps
    /\ outcome' = "ok"
    /\ vars' # vars

\* C25: every push_front_child, push_child, add_before or add_after call
\* that does not abort adds the key `new` to structure and no other, removes
\* none, leaves the relation record of every node other than new, the parent
\* or anchor, the adjacent sibling and the anchor's parent as it was, and
\* leaves selected_nodes, click_targets, upstream_transforms, artboards and
\* folders as they were.
C25_InsertFrame ==
    [][InsertReturned =>
        /\ DOMAIN structure' = (DOMAIN structure) \cup {last'.new}
        /\ last'.new \notin DOMAIN structure
        /\ \A k \in (DOMAIN structure) \ Touched(structure, last'.op, last'.self, last'.new) :
               structure'[k] = structure[k]
        /\ UNCHANGED <<selected_nodes, click_targets, upstream_transforms,
                       artboards, folders>>]_vars

\* C26: for every node key k of the u64 range new_unchecked(k) returns and
\* stores a value that is 1 or more, to_node(new_unchecked(k)) returns k,
\* two identifiers are equal exactly when their node keys are, and
\* new_unchecked(k) is ROOT for k = 0 alone.
C26_IdentifierArithmetic ==
    /\ (last.op = "new_unchecked") =>
           /\ outcome = "ok"
           /\ U64AtLeastOne(last.result)
           /\ (last.result = ROOT) <=> (last.arg[1] = 0)
    /\ (last.op = "to_node") =>
           /\ outcome = "ok"
           /\ last.result = last.arg[1]
    /\ (last.op = "eq") =>
           /\ outcome = "ok"
           /\ last.result <=> (last.arg[1] = last.arg[2])

\* a == b on f64.
FEq(a, b) ==
    /\ a.kind # "nan"
    /\ b.kind # "nan"
    /\ (a.kind = "zero" /\ b.kind = "zero") \/ a = b

\* The f64 that is exactly v - n / 2^k, and exactly v + n / 2^k, for a small
\* integer v and an offset <<n, k>>.
Below(v, d) == Dyadic(v * (2 ^ d[2]) - d[1], d[2])
Above(v, d) == Dyadic(v * (2 ^ d[2]) + d[1], d[2])

\* Where the side through corner i of a box moves on axis k when every side
\* moves outward by d.
Outward(quad, k, i, d) ==
    IF quad[i][k] = Least(quad, k) THEN Below(quad[i][k], d) ELSE Above(quad[i][k], d)

\* The coordinate of corner i of an f64 quad on axis k.
Coord(quad, k, i) == IF k = 1 THEN quad[i].x ELSE quad[i].y

\* The box of the query has an interior, and its corners run counter-clockwise.
HasInterior(quad) == \A k \in 1..2 : Least(quad, k) < Most(quad, k)
DoubledArea(quad) ==
    LET next(i) == (i % 4) + 1
        cross(i) == quad[i][1] * quad[next(i)][2] - quad[next(i)][1] * quad[i][2]
    IN  cross(1) + cross(2) + cross(3) + cross(4)

\* Every side is moved outward by exactly d.
MovedOutward(quad, d, inflated) ==
    \A k \in 1..2 :
        IF Least(quad, k) < Most(quad, k)
        THEN \A i \in 1..4 : FEq(Coord(inflated, k, i), Outward(quad, k, i, d))
        ELSE {Coord(inflated, k, i) : i \in 1..4} =
                 {Below(Least(quad, k), d), Above(Most(quad, k), d)}

\* C21: inflating an axis-aligned box quad by d moves every side outward by
\* exactly d, whichever corner order from_box was given and whether the box
\* was mirrored or not, and inflating the mirrored box gives the mirror image
\* of the inflated box, coordinate for coordinate.
C21_InflateMovesSidesOutward ==
    (last.op = "inflate") =>
        /\ MovedOutward(last.arg[1], last.arg[2], last.result.inflated)
        /\ \A k \in 1..2, i \in 1..4 :
               FEq(Coord(last.result.inflated, k, i), Coord(last.result.moved, k, i))

\* What does hold: a box with an interior whose corners run counter-clockwise
\* has every side moved outward by exactly d.
C21_CounterClockwise ==
    (last.op = "inflate" /\ HasInterior(last.arg[1]) /\ DoubledArea(last.arg[1]) > 0) =>
        MovedOutward(last.arg[1], last.arg[2], last.result.inflated)

\* A box with an interior whose corners run clockwise is moved outward by d
\* to within one part in 2^50, but not exactly.
C21_ClockwiseInexact ==
    (last.op = "inflate" /\ HasInterior(last.arg[1]) /\ DoubledArea(last.arg[1]) < 0) =>
        ~MovedOutward(last.arg[1], last.arg[2], last.result.inflated)

\* A box without an interior inflates to NaN in every coordinate.
C21_DegenerateIsNaN ==
    (last.op = "inflate" /\ ~HasInterior(last.arg[1])) =>
        \A k \in 1..2, i \in 1..4 : Coord(last.result.inflated, k, i).kind = "nan"

====
